---- MODULE Spec2Model ----
(***************************************************************************)
(* Model of the motion detection engine of the child-safety PWA.           *)
(*                                                                         *)
(* ConfidenceScorer (src/src/utils/ConfidenceScorer.ts, the last class of  *)
(* the file, "VERY LOW SENSITIVITY") is modelled as a state machine over   *)
(* its private fields.                                                     *)
(*                                                                         *)
(* AlertManager (src/src/utils/AlertManager.ts) is modelled over its       *)
(* private fields, together with the oscillator nodes it has started and   *)
(* the triggerAlert calls suspended at the resume of the audio context.    *)
(*                                                                         *)
(* MotionAnalyzer (src/src/utils/MotionAnalyzer.ts) is modelled over its   *)
(* buffer and gravity filter.  Vectors are triples of integers in tenths;  *)
(* a square root or a quotient is rounded down to the next tenth.          *)
(*                                                                         *)
(* Units.  Feature values (m/s^2, m/s^3, deg/s, variance) are integers in  *)
(* tenths, so the threshold 1.5 is 15 and 40.0 is 400.  Confidences are    *)
(* integers in 1/10000, so 0.65 is 6500 and 0.4 * 0.05 is 200.  Time is    *)
(* in milliseconds, as returned by Date.now().                             *)
(***************************************************************************)
EXTENDS Integers, Sequences, FiniteSets, TLC

VARIABLES
    fallDetectionState,   \* ConfidenceScorer.fallDetectionState
    fallStateTimestamp,   \* ConfidenceScorer.fallStateTimestamp
    recentFeatures,       \* ConfidenceScorer.recentFeatures
    now,                  \* the wall clock, last value read by Date.now()
    ret,                  \* the DetectionResult returned by the last detect
    call,                 \* the last call: operation, argument, state before it
    ndetect,              \* number of detect calls since the last reset
    fresh,                \* a second, newly constructed scorer fed the same
                          \* samples from some point on, for comparison
    passed,               \* the vectors passed to detect since the last reset
    replica,              \* a scorer constructed when the first is reset, and
                          \* called as the first is from then on
    config,               \* AlertManager.config
    lastAlertTime,        \* AlertManager.lastAlertTime
    isAlerting,           \* AlertManager.isAlerting
    oscillator,           \* AlertManager.oscillator: 0 is null, else the node
    gainNode,             \* AlertManager.gainNode: 0 is null, else the node
    audioContext,         \* AlertManager.audioContext: "null" or its state
    tones,                \* the oscillator nodes started whose onended has
                          \* not run yet, each with the time its tone ends
    created,              \* number of oscillator nodes created so far
    waiting,              \* the triggerAlert calls awaiting audioContext.resume()
    alerts,               \* the alerts raised, each with its console.warn count
    recentAlerts,         \* App: the recentAlerts list
    alertConfig,          \* App: the alertConfig state, the config the
                          \* manager was constructed with and given since
    acall,                \* the last AlertManager call: operation, argument,
                          \* result and the manager before it
    nalert,               \* number of calls made to the AlertManager
    dataBuffer,           \* MotionAnalyzer.dataBuffer
    gravityFilter,        \* MotionAnalyzer.gravityFilter
    tick,                 \* the last call of the analyzer or run of the
                          \* motion effect of App: what extractFeatures
                          \* returned, the filter and the scorer it found
    added,                \* the samples added since the last clear
    twin,                 \* an analyzer constructed when the first is
                          \* cleared, and called as the first is from then on
    isMonitoring,         \* App: the isMonitoring state
    status,               \* useMotionSensors: the status state
    listening,            \* whether handleMotionEvent is registered for the
                          \* devicemotion events of the window
    sensorData,           \* useMotionSensors: the data state, <<>> when
                          \* null, else the last sample delivered
    saveToDatabase,       \* App: the saveToDatabase state
    saves,                \* the promise chains the motion effect started to
                          \* save a detection, each with the stage reached
    detectionsTable,      \* the rows inserted into the detections table
    alertsTable           \* the rows inserted into the alerts table

scorerVars == <<fallDetectionState, fallStateTimestamp, recentFeatures, ret,
                call, ndetect, fresh, passed, replica>>

alertVars == <<config, lastAlertTime, isAlerting, oscillator, gainNode,
               audioContext, tones, created, waiting, alerts, recentAlerts,
               alertConfig, acall, nalert>>

analyzerVars == <<dataBuffer, gravityFilter, tick, added, twin>>

hookVars == <<status, listening, sensorData>>

dbVars == <<saves, detectionsTable, alertsTable>>

appVars == <<isMonitoring, status, listening, sensorData, saveToDatabase,
             saves, detectionsTable, alertsTable>>

(* what a run of the motion effect leaves alone in App, the hook and the    *)
(* tables                                                                   *)
effectFrame == <<isMonitoring, status, listening, saveToDatabase,
                 detectionsTable, alertsTable>>

vars == <<fallDetectionState, fallStateTimestamp, recentFeatures, now, ret,
          call, ndetect, fresh, config, lastAlertTime, isAlerting, oscillator,
          gainNode, audioContext, tones, created, waiting, alerts,
          recentAlerts, alertConfig, acall, nalert, dataBuffer, gravityFilter, tick,
          passed, replica, added, twin, isMonitoring, status, listening,
          sensorData, saveToDatabase, saves, detectionsTable, alertsTable>>

----------------------------------------------------------------------------
(* Bounds of the model *)

Epoch == 5000
MaxTime == 8300
MaxDetects == 5
MaxTrend == 7
MaxHistory == 12
MaxAlertTime == 14000
MaxAlertCalls == 4
MaxSamples == 12
MaxWindow == 60
MaxExtracts == 2
MaxSession == 14
MaxRecorded == 14
MaxToggled == 12

(* the delays between two consecutive reads of Date.now() *)
Gaps == {0, 200, 1000, 1100, 2100}

----------------------------------------------------------------------------
(* Thresholds of ConfidenceScorer, in tenths *)

FREE_FALL_MAX == 15
IMPACT_MIN == 400
INACTIVITY_MAX == 80
JERK_SPIKE_MIN == 2000

JERK_HIGH == 1500
ACCELERATION_PEAK == 350
ROTATION_RAPID == 5000
VARIANCE_HIGH == 250

WALKING_MAX == 250
RUNNING_MAX == 350
PHONE_HANDLING_MAX == 220

FALL_SEQUENCE_TIMEOUT == 2000
POST_IMPACT_HOLD == 1000
HISTORY_SIZE == 10

(* the confidence from which the application stores a detection, 0.75 *)
MIN_CONFIDENCE == 7500

(* length of the alarm tone, oscillator.stop(now + 2.4), and the length of *)
(* the recentAlerts list                                                   *)
TONE_MS == 2400
RECENT_ALERTS == 10

(* MotionAnalyzer: the bufferSize App constructs it with, and the fewest   *)
(* samples extractFeatures works on                                        *)
bufferSize == 50
MIN_SAMPLES == 10

----------------------------------------------------------------------------
(* MotionFeatures *)

Features(m, j, v, p, a, r) ==
    [magnitude |-> m, jerk |-> j, variance |-> v, peakAcceleration |-> p,
     averageAcceleration |-> a, rotationMagnitude |-> r]

(* a DetectionResult, without the timestamp and features it echoes *)
Result(type, confidence) ==
    [type |-> IF confidence > 0 THEN type ELSE "null", confidence |-> confidence]

NoDetection == [type |-> "null", confidence |-> 0]

----------------------------------------------------------------------------
(* detectFall: the outcome is the new fallDetectionState, the new           *)
(* fallStateTimestamp and the confidence                                    *)

FallOutcome(st, ts, c) == [state |-> st, stamp |-> ts, confidence |-> c]

(* faulty variants of the timeout test: operands swapped; limit doubled *)
TimedOut_Reversed(ts, timestamp) == ts - timestamp > FALL_SEQUENCE_TIMEOUT

TimedOut_Late(ts, timestamp) == timestamp - ts > 2 * FALL_SEQUENCE_TIMEOUT

TimedOut(ts, timestamp) == timestamp - ts > FALL_SEQUENCE_TIMEOUT

(* faulty variant: the entry into free fall is not stamped *)
IdleCase_NoStamp(ts, f, timestamp) ==
    IF f.magnitude < FREE_FALL_MAX
    THEN FallOutcome("free_fall", ts, 0)
    ELSE FallOutcome("idle", ts, 0)

IdleCase(ts, f, timestamp) ==
    IF f.magnitude < FREE_FALL_MAX
    THEN FallOutcome("free_fall", timestamp, 0)
    ELSE FallOutcome("idle", ts, 0)

(* faulty variant: either sign of an impact is enough (earlier tunings) *)
FreeFallCase_EitherSign(ts, f, timestamp) ==
    IF f.peakAcceleration > IMPACT_MIN \/ f.jerk > JERK_SPIKE_MIN
    THEN FallOutcome("impact", timestamp, 6500)
    ELSE IF f.magnitude > FREE_FALL_MAX
         THEN FallOutcome("idle", ts, 0)
         ELSE FallOutcome("free_fall", ts, 0)

FreeFallCase(ts, f, timestamp) ==
    IF f.peakAcceleration > IMPACT_MIN /\ f.jerk > JERK_SPIKE_MIN
    THEN FallOutcome("impact", timestamp, 6500)
    ELSE IF f.magnitude > FREE_FALL_MAX
         THEN FallOutcome("idle", ts, 0)
         ELSE FallOutcome("free_fall", ts, 0)

(* faulty variants: inactivity judged on the last magnitude; the accepted *)
(* impact reported one notch lower                                         *)
ImpactCase_OnMagnitude(ts, f, timestamp) ==
    IF f.magnitude < INACTIVITY_MAX
    THEN FallOutcome("post_impact", timestamp, 8000)
    ELSE FallOutcome("idle", ts, 2000)

ImpactCase_Lowered(ts, f, timestamp) ==
    IF f.averageAcceleration < INACTIVITY_MAX
    THEN FallOutcome("post_impact", timestamp, 7000)
    ELSE FallOutcome("idle", ts, 2000)

ImpactCase(ts, f, timestamp) ==
    IF f.averageAcceleration < INACTIVITY_MAX
    THEN FallOutcome("post_impact", timestamp, 8000)
    ELSE FallOutcome("idle", ts, 2000)

(* faulty variants: the hold ends at 1000 ms sharp; confidence in percent *)
PostImpactCase_AtHold(ts, f, timestamp) ==
    IF timestamp - ts >= POST_IMPACT_HOLD
    THEN FallOutcome("idle", ts, 7500)
    ELSE FallOutcome("post_impact", ts, 7500)

PostImpactCase_Percent(ts, f, timestamp) ==
    IF timestamp - ts > POST_IMPACT_HOLD
    THEN FallOutcome("idle", ts, 750000)
    ELSE FallOutcome("post_impact", ts, 750000)

PostImpactCase(ts, f, timestamp) ==
    IF timestamp - ts > POST_IMPACT_HOLD
    THEN FallOutcome("idle", ts, 7500)
    ELSE FallOutcome("post_impact", ts, 7500)

detectFall(st, ts, f, timestamp) ==
    LET s == IF TimedOut(ts, timestamp) THEN "idle" ELSE st
    IN  CASE s = "idle"        -> IdleCase(ts, f, timestamp)
          [] s = "free_fall"   -> FreeFallCase(ts, f, timestamp)
          [] s = "impact"      -> ImpactCase(ts, f, timestamp)
          [] s = "post_impact" -> PostImpactCase(ts, f, timestamp)

----------------------------------------------------------------------------
(* isNormalActivity *)

isNormalActivity(f) ==
    LET isWalking == /\ f.peakAcceleration < WALKING_MAX
                     /\ f.variance < 180
                     /\ f.jerk < 1200
        isRunning == /\ f.peakAcceleration < RUNNING_MAX
                     /\ f.variance < 250
                     /\ f.jerk < 1400
        isPhoneHandling == /\ f.peakAcceleration < PHONE_HANDLING_MAX
                           /\ f.rotationMagnitude < 4000
    IN  isWalking \/ isRunning \/ isPhoneHandling

----------------------------------------------------------------------------
(* detectViolentMovement *)

B2N(b) == IF b THEN 1 ELSE 0

triggeredCount(f) ==
    B2N(f.jerk > JERK_HIGH) + B2N(f.peakAcceleration > ACCELERATION_PEAK)
    + B2N(f.rotationMagnitude > ROTATION_RAPID) + B2N(f.variance > VARIANCE_HIGH)

(* faulty variant: scoring of the first tuning, three indicators suffice *)
violentBase_First(f) ==
    LET n == triggeredCount(f)
    IN  IF n >= 3 THEN 9000
        ELSE IF n = 2 THEN 7000
        ELSE IF n = 1
        THEN IF f.jerk > JERK_HIGH /\ 2 * f.jerk > 3 * JERK_HIGH
             THEN 6000
             ELSE IF /\ f.peakAcceleration > ACCELERATION_PEAK
                     /\ 2 * f.peakAcceleration > 3 * ACCELERATION_PEAK
                  THEN 6000
                  ELSE 0
        ELSE 0

(* the confidence before the normal-activity filter *)
violentBase(f) ==
    LET n == triggeredCount(f)
    IN  IF n >= 4 THEN 9000
        ELSE IF n = 3 THEN 7500
        ELSE IF n = 2 THEN 5000
        ELSE IF n = 1
        THEN IF f.jerk > JERK_HIGH /\ 2 * f.jerk > 5 * JERK_HIGH
             THEN 4000
             ELSE IF /\ f.peakAcceleration > ACCELERATION_PEAK
                     /\ 2 * f.peakAcceleration > 5 * ACCELERATION_PEAK
                  THEN 4000
                  ELSE 0
        ELSE 0

(* faulty variant: a normal activity is silenced altogether *)
violentConfidence_Zeroed(f) ==
    IF isNormalActivity(f) THEN 0 ELSE violentBase(f)

(* confidence *= 0.1 when the vector is a normal activity *)
violentConfidence(f) ==
    IF isNormalActivity(f) THEN violentBase(f) \div 10 ELSE violentBase(f)

detectViolentMovement(f) == Result("violent_movement", violentConfidence(f))

----------------------------------------------------------------------------
(* detectAbnormalMotion, which reads the history after detect has pushed f *)

Last(n, s) == SubSeq(s, IF Len(s) > n THEN Len(s) - n + 1 ELSE 1, Len(s))

CountHigh(s) == Cardinality({i \in 1..Len(s) : s[i].averageAcceleration > 200})

(* faulty variant: base 0.5, raised to 0.75 on 6 of the last 7 *)
abnormalBase_SixOfSeven(f, hist) ==
    IF /\ f.averageAcceleration > 220
       /\ f.variance > 200
       /\ f.peakAcceleration > 320
    THEN IF Len(hist) >= 7 /\ CountHigh(Last(7, hist)) >= 6 THEN 7500 ELSE 5000
    ELSE 0

abnormalBase(f, hist) ==
    IF /\ f.averageAcceleration > 220
       /\ f.variance > 200
       /\ f.peakAcceleration > 320
    THEN IF Len(hist) >= 5 /\ CountHigh(Last(5, hist)) >= 4 THEN 5500 ELSE 4000
    ELSE 0

(* confidence *= 0.05 when the vector is a normal activity *)
abnormalConfidence(f, hist) ==
    IF isNormalActivity(f) THEN abnormalBase(f, hist) \div 20
    ELSE abnormalBase(f, hist)

detectAbnormalMotion(f, hist) == Result("abnormal_motion", abnormalConfidence(f, hist))

----------------------------------------------------------------------------
(* detect *)

(* faulty variant: a full history keeps its oldest vectors *)
Push_KeepOldest(hist, f) ==
    LET h == Append(hist, f)
    IN  IF Len(h) > HISTORY_SIZE THEN hist ELSE h

Push(hist, f) ==
    LET h == Append(hist, f)
    IN  IF Len(h) > HISTORY_SIZE THEN Tail(h) ELSE h

(* faulty variant: violent movement is looked at before the fall *)
Select_ViolentFirst(fc, vc, ac) ==
    IF vc > 0 THEN Result("violent_movement", vc)
    ELSE IF fc > 0 THEN Result("fall", fc)
    ELSE IF ac > 0 THEN Result("abnormal_motion", ac)
    ELSE NoDetection

(* the result detect returns, given the three sub-detector confidences *)
Select(fc, vc, ac) ==
    IF fc > 0 THEN Result("fall", fc)
    ELSE IF vc > 0 THEN Result("violent_movement", vc)
    ELSE IF ac > 0 THEN Result("abnormal_motion", ac)
    ELSE NoDetection

(* The comparison scorer.  It is constructed by Fork and then receives the  *)
(* samples of one complete fall: samples in free fall, the impact, the      *)
(* inactivity.  stage counts the part of the fall fed so far, and settled   *)
(* records whether the scorer under test was Idle or had timed out when the *)
(* first of these samples arrived.                                          *)
FreshOff == [on |-> FALSE, state |-> "idle", stamp |-> 0, confidence |-> 0,
             stage |-> 0, settled |-> FALSE, from |-> "idle"]

ImpactLike(f) == f.peakAcceleration > IMPACT_MIN /\ f.jerk > JERK_SPIKE_MIN

FreeFallLike(f) == f.magnitude < FREE_FALL_MAX /\ ~ImpactLike(f)

NextStage(stage, f) ==
    IF stage \in {0, 1} /\ FreeFallLike(f) THEN 1
    ELSE IF stage = 1 /\ ImpactLike(f) THEN 2
    ELSE IF stage = 2 /\ f.averageAcceleration < INACTIVITY_MAX THEN 3
    ELSE 0

FeedFresh(f, timestamp) ==
    LET stage == NextStage(fresh.stage, f)
        o == detectFall(fresh.state, fresh.stamp, f, timestamp)
    IN  IF ~fresh.on THEN fresh
        ELSE IF stage = 0 THEN FreshOff
        ELSE [on |-> TRUE, state |-> o.state, stamp |-> o.stamp,
              confidence |-> o.confidence, stage |-> stage,
              settled |-> IF fresh.stage = 0
                          THEN \/ fallDetectionState = "idle"
                               \/ timestamp - fallStateTimestamp
                                      > FALL_SEQUENCE_TIMEOUT
                          ELSE fresh.settled,
              from |-> IF fresh.stage = 0 THEN fallDetectionState
                       ELSE fresh.from]

(* new ConfidenceScorer(): the fields as initialised, nothing returned yet  *)
(* and, for the replica, whether the reset it was constructed at came      *)
(* right after a fall was reported                                          *)
NewScorer ==
    [state |-> "idle", stamp |-> 0, history |-> <<>>, ret |-> NoDetection,
     fell |-> FALSE]

(* detect(f) on the replica, Date.now() returning timestamp *)
FeedReplica(f, timestamp) ==
    LET hist == Push(replica.history, f)
        fall == detectFall(replica.state, replica.stamp, f, timestamp)
    IN  [replica EXCEPT !.state = fall.state, !.stamp = fall.stamp,
                        !.history = hist,
                        !.ret = Select(fall.confidence, violentConfidence(f),
                                       abnormalConfidence(f, hist))]

Detect(f, dt) ==
    LET timestamp == now + dt
        hist == Push(recentFeatures, f)
        fall == detectFall(fallDetectionState, fallStateTimestamp, f, timestamp)
    IN  /\ timestamp <= MaxTime
        /\ fresh' = FeedFresh(f, timestamp)
        /\ replica' = FeedReplica(f, timestamp)
        /\ passed' = Append(passed, f)
        /\ now' = timestamp
        /\ recentFeatures' = hist
        /\ fallDetectionState' = fall.state
        /\ fallStateTimestamp' = fall.stamp
        /\ ret' = Select(fall.confidence, violentConfidence(f),
                         abnormalConfidence(f, hist))
        /\ call' = [op |-> "detect", f |-> f, at |-> timestamp,
                    state |-> fallDetectionState, stamp |-> fallStateTimestamp]
        /\ ndetect' = ndetect + 1

NoCall == [op |-> "init", f |-> Features(0, 0, 0, 0, 0, 0), at |-> 0,
           state |-> "idle", stamp |-> 0]

(* faulty variant: the feature history survives the reset *)
Reset_KeepHistory ==
    /\ fallDetectionState' = "idle"
    /\ fallStateTimestamp' = 0
    /\ ndetect' = 0
    /\ call' = [NoCall EXCEPT !.op = "reset", !.state = fallDetectionState,
                              !.stamp = fallStateTimestamp]
    /\ fresh' = FreshOff
    /\ passed' = <<>>
    /\ replica' = [NewScorer EXCEPT !.fell = ret.type = "fall"]
    /\ UNCHANGED <<now, ret, recentFeatures>>

Reset ==
    /\ fallDetectionState' = "idle"
    /\ fallStateTimestamp' = 0
    /\ recentFeatures' = <<>>
    /\ ndetect' = 0
    /\ call' = [NoCall EXCEPT !.op = "reset", !.state = fallDetectionState,
                              !.stamp = fallStateTimestamp]
    /\ fresh' = FreshOff
    /\ passed' = <<>>
    /\ replica' = [NewScorer EXCEPT !.fell = ret.type = "fall"]
    /\ UNCHANGED <<now, ret>>

(* new ConfidenceScorer(): the comparison scorer starts from the field      *)
(* initialisers                                                             *)
Fork ==
    /\ ~fresh.on
    /\ fresh' = [FreshOff EXCEPT !.on = TRUE]
    /\ UNCHANGED <<fallDetectionState, fallStateTimestamp, recentFeatures,
                   now, ret, call, ndetect, passed, replica>>
    /\ UNCHANGED <<alertVars, analyzerVars, appVars>>

----------------------------------------------------------------------------
(* AlertManager.  Its methods are functions of the manager, a record of the *)
(* fields, the nodes and the suspended calls; an action commits the result. *)

(* the AlertConfig of App *)
DefaultConfig ==
    [enabled |-> TRUE, confidenceThreshold |-> 8000, cooldownPeriod |-> 5000,
     soundEnabled |-> TRUE]

Manager ==
    [config |-> config, lastAlertTime |-> lastAlertTime,
     isAlerting |-> isAlerting, oscillator |-> oscillator,
     gainNode |-> gainNode, audioContext |-> audioContext, tones |-> tones,
     created |-> created, waiting |-> waiting, alerts |-> alerts]

Commit(m) ==
    /\ config' = m.config
    /\ lastAlertTime' = m.lastAlertTime
    /\ isAlerting' = m.isAlerting
    /\ oscillator' = m.oscillator
    /\ gainNode' = m.gainNode
    /\ audioContext' = m.audioContext
    /\ tones' = m.tones
    /\ created' = m.created
    /\ waiting' = m.waiting
    /\ alerts' = m.alerts

(* faulty variant: a confidence equal to the threshold is refused *)
shouldAlert_Strict(m, detection, timestamp) ==
    IF ~m.config.enabled THEN FALSE
    ELSE IF detection.type = "null" THEN FALSE
    ELSE IF detection.confidence <= m.config.confidenceThreshold THEN FALSE
    ELSE IF timestamp - m.lastAlertTime < m.config.cooldownPeriod THEN FALSE
    ELSE TRUE

(* timestamp is the value of Date.now() *)
shouldAlert(m, detection, timestamp) ==
    IF ~m.config.enabled THEN FALSE
    ELSE IF detection.type = "null" THEN FALSE
    ELSE IF detection.confidence < m.config.confidenceThreshold THEN FALSE
    ELSE IF timestamp - m.lastAlertTime < m.config.cooldownPeriod THEN FALSE
    ELSE TRUE

cleanup(m) ==
    [m EXCEPT !.oscillator = 0, !.gainNode = 0, !.isAlerting = FALSE]

(* playAlarmSound from the creation of the oscillator on.  played says      *)
(* whether the audio calls of the try block went through; when one throws,  *)
(* the catch block runs cleanup.                                            *)
startTone(m, played, timestamp) ==
    IF played
    THEN [m EXCEPT !.oscillator = m.created + 1,
                   !.gainNode = m.created + 1,
                   !.created = m.created + 1,
                   !.tones = @ \cup {[id |-> m.created + 1,
                                      due |-> timestamp + TONE_MS]}]
    ELSE cleanup(m)

(* console.warn for the k-th alert raised *)
logAlert(m, k) == [m EXCEPT !.alerts[k].logs = @ + 1]

(* faulty variants: no guard on isAlerting; the time of the alert is not    *)
(* recorded                                                                 *)
triggerAlert_Reentrant(m, detection, via, then, played, timestamp) ==
    LET k == Len(m.alerts) + 1
        m1 == [m EXCEPT !.isAlerting = TRUE,
                        !.lastAlertTime = timestamp,
                        !.alerts = Append(@, [type |-> detection.type,
                                              confidence |-> detection.confidence,
                                              at |-> timestamp, via |-> via,
                                              cooldown |-> m.config.cooldownPeriod,
                                              logs |-> 0])]
    IN  IF ~m1.config.soundEnabled \/ m1.audioContext = "null"
        THEN logAlert(m1, k)
        ELSE IF m1.audioContext = "suspended"
             THEN [m1 EXCEPT !.waiting = Append(@, [alert |-> k, then |-> then])]
             ELSE logAlert(startTone(m1, played, timestamp), k)

triggerAlert_NoStamp(m, detection, via, then, played, timestamp) ==
    IF m.isAlerting THEN m
    ELSE
    LET k == Len(m.alerts) + 1
        m1 == [m EXCEPT !.isAlerting = TRUE,
                        !.alerts = Append(@, [type |-> detection.type,
                                              confidence |-> detection.confidence,
                                              at |-> timestamp, via |-> via,
                                              cooldown |-> m.config.cooldownPeriod,
                                              logs |-> 0])]
    IN  IF ~m1.config.soundEnabled \/ m1.audioContext = "null"
        THEN logAlert(m1, k)
        ELSE IF m1.audioContext = "suspended"
             THEN [m1 EXCEPT !.waiting = Append(@, [alert |-> k, then |-> then])]
             ELSE logAlert(startTone(m1, played, timestamp), k)

(* triggerAlert up to its end, or up to the await of audioContext.resume()  *)
(* when the context is suspended: the call is then kept in waiting with     *)
(* what its caller does once it returns (then).  via names the caller.      *)
triggerAlert(m, detection, via, then, played, timestamp) ==
    IF m.isAlerting THEN m
    ELSE
    LET k == Len(m.alerts) + 1
        m1 == [m EXCEPT !.isAlerting = TRUE,
                        !.lastAlertTime = timestamp,
                        !.alerts = Append(@, [type |-> detection.type,
                                              confidence |-> detection.confidence,
                                              at |-> timestamp, via |-> via,
                                              cooldown |-> m.config.cooldownPeriod,
                                              logs |-> 0])]
    IN  IF ~m1.config.soundEnabled \/ m1.audioContext = "null"
        THEN logAlert(m1, k)
        ELSE IF m1.audioContext = "suspended"
             THEN [m1 EXCEPT !.waiting = Append(@, [alert |-> k, then |-> then])]
             ELSE logAlert(startTone(m1, played, timestamp), k)

(* the rest of the suspended calls once resume() has settled: the tone, the *)
(* console.warn and, for a testAlert, the restoring of config.enabled       *)
RECURSIVE settle(_, _, _, _)
settle(m, w, played, timestamp) ==
    IF w = <<>> THEN m
    ELSE LET e == Head(w)
             m1 == logAlert(startTone(m, played, timestamp), e.alert)
             m2 == IF e.then = "return" THEN m1
                   ELSE [m1 EXCEPT !.config.enabled = (e.then = "enable")]
         IN  settle(m2, Tail(w), played, timestamp)

resumed(m, played, timestamp) ==
    [settle(m, m.waiting, played, timestamp) EXCEPT
        !.waiting = <<>>,
        !.audioContext = IF played THEN "running" ELSE @]

(* oscillator.stop() ends the tone of the node held, unless it throws *)
stopTone(m, stopThrows, timestamp) ==
    IF m.oscillator = 0 \/ stopThrows THEN m
    ELSE [m EXCEPT !.tones = {IF n.id = m.oscillator /\ n.due > timestamp
                              THEN [n EXCEPT !.due = timestamp] ELSE n
                              : n \in m.tones}]

(* faulty variants: the time of the last alert is cleared with the alert;   *)
(* nothing is done when no oscillator is held                               *)
stopAlert_ResetCooldown(m, stopThrows, timestamp) ==
    [cleanup(stopTone(m, stopThrows, timestamp)) EXCEPT !.lastAlertTime = 0]

stopAlert_IfPlaying(m, stopThrows, timestamp) ==
    IF m.oscillator = 0 THEN m
    ELSE cleanup(stopTone(m, stopThrows, timestamp))

stopAlert(m, stopThrows, timestamp) ==
    cleanup(stopTone(m, stopThrows, timestamp))

(* the error stopAlert ends with: the one of oscillator.stop() is caught *)
stopAlertError(m, stopThrows) == "none"

Merge(c, partial) ==
    [x \in DOMAIN c |-> IF x \in DOMAIN partial THEN partial[x] ELSE c[x]]

(* faulty variant: the fields not named fall back to the defaults *)
updateConfig_Replace(m, partial) ==
    [m EXCEPT !.config = Merge(DefaultConfig, partial)]

updateConfig(m, partial) == [m EXCEPT !.config = Merge(m.config, partial)]

TestDetection == [type |-> "fall", confidence |-> 10000]

(* faulty variant: config.enabled is left forced *)
testAlert_NoRestore(m, played, timestamp) ==
    LET m1 == [m EXCEPT !.config.enabled = TRUE]
    IN  triggerAlert(m1, TestDetection, "test", "return", played, timestamp)

testAlert(m, played, timestamp) ==
    LET originalEnabled == m.config.enabled
        m1 == [m EXCEPT !.config.enabled = TRUE]
        m2 == triggerAlert(m1, TestDetection, "test",
                           IF originalEnabled THEN "enable" ELSE "disable",
                           played, timestamp)
    IN  IF Len(m2.waiting) > Len(m.waiting) THEN m2
        ELSE [m2 EXCEPT !.config.enabled = originalEnabled]

(* new AlertManager(alertConfig): context is what initAudioContext obtained *)
NoPartial == [x \in {} |-> TRUE]

(* a call as recorded: result is what shouldAlert returned, before is the  *)
(* manager the call found                                                   *)
AlertCall(op, detection, timestamp, result, partial, m) ==
    [op |-> op, d |-> detection, at |-> timestamp, result |-> result,
     partial |-> partial, error |-> "none", before |-> m]

ManagerInit(context) ==
    /\ config = DefaultConfig
    /\ lastAlertTime = 0
    /\ isAlerting = FALSE
    /\ oscillator = 0
    /\ gainNode = 0
    /\ audioContext = context
    /\ tones = {}
    /\ created = 0
    /\ waiting = <<>>
    /\ alerts = <<>>
    /\ recentAlerts = <<>>
    /\ alertConfig = DefaultConfig
    /\ acall = AlertCall("init", NoDetection, 0, FALSE, NoPartial, Manager)
    /\ nalert = 0

----------------------------------------------------------------------------
(* MotionAnalyzer *)

Abs(x) == IF x < 0 THEN -x ELSE x

Vec(x, y, z) == <<x, y, z>>

Zero == Vec(0, 0, 0)

(* the square root of q rounded down, by Newton's iteration from k, a      *)
(* number not below it                                                     *)
RECURSIVE Root(_, _)
Root(q, k) == IF k * k <= q THEN k ELSE Root(q, (k + q \div k) \div 2)

(* Math.sqrt(x ** 2 + y ** 2 + z ** 2), rounded down *)
computeMagnitude(v) ==
    Root(v[1] * v[1] + v[2] * v[2] + v[3] * v[3],
         Abs(v[1]) + Abs(v[2]) + Abs(v[3]))

MaxOf(S) == CHOOSE x \in S : \A y \in S : y <= x

RECURSIVE Sum(_)
Sum(q) == IF q = <<>> THEN 0 ELSE Head(q) + Sum(Tail(q))

(* faulty variant: a full buffer drops the sample that arrives *)
addData_DropNewest(buffer, data) ==
    LET b == Append(buffer, data)
    IN  IF Len(b) > bufferSize THEN buffer ELSE b

addData(buffer, data) ==
    LET b == Append(buffer, data)
    IN  IF Len(b) > bufferSize THEN Tail(b) ELSE b

getBufferLength(buffer) == Len(buffer)

(* removeGravity: the gravity estimate after accel, alpha = 0.8 *)
gravityAfter(g, accel) ==
    [i \in 1..3 |-> (8 * g[i] + 2 * accel[i]) \div 10]

(* the magnitudes extractFeatures maps the buffer to, and the gravity      *)
(* filter this leaves: a sample without linear acceleration goes through   *)
(* removeGravity                                                           *)
RECURSIVE magnitudesOf(_, _)
magnitudesOf(buffer, g) ==
    IF buffer = <<>> THEN [magnitudes |-> <<>>, gravity |-> g]
    ELSE LET data == Head(buffer)
             own == data.acceleration # Zero
             g1 == IF own THEN g
                   ELSE gravityAfter(g, data.accelerationIncludingGravity)
             accel == IF own THEN data.acceleration
                      ELSE [i \in 1..3 |->
                               data.accelerationIncludingGravity[i] - g1[i]]
             rest == magnitudesOf(Tail(buffer), g1)
         IN  [magnitudes |-> <<computeMagnitude(accel)>> \o rest.magnitudes,
              gravity |-> rest.gravity]

(* faulty variant: a single pair with a time difference gives no jerk *)
computeJerk_TwoPairs(buffer) ==
    IF Len(buffer) < 2 THEN 0
    ELSE LET recent == Last(10, buffer)
             pairs == {j \in 2..Len(recent) :
                          recent[j].timestamp # recent[j - 1].timestamp}
             jerks == {(computeMagnitude(
                           [k \in 1..3 |-> recent[i].acceleration[k]
                                           - recent[i - 1].acceleration[k]])
                         * 1000)
                        \div Abs(recent[i].timestamp - recent[i - 1].timestamp)
                       : i \in pairs}
         IN  IF Cardinality(pairs) >= 2 THEN MaxOf(jerks) ELSE 0

(* the largest jerk between two consecutive samples among the last 10, in  *)
(* tenths of m/s^3; the timestamps are in ms                               *)
computeJerk(buffer) ==
    IF Len(buffer) < 2 THEN 0
    ELSE LET recent == Last(10, buffer)
             jerks == {(computeMagnitude(
                           [k \in 1..3 |-> recent[i].acceleration[k]
                                           - recent[i - 1].acceleration[k]])
                         * 1000)
                        \div Abs(recent[i].timestamp - recent[i - 1].timestamp)
                       : i \in {j \in 2..Len(recent) :
                                   recent[j].timestamp # recent[j - 1].timestamp}}
         IN  IF jerks # {} THEN MaxOf(jerks) ELSE 0

computeRotationMagnitude(buffer) ==
    IF Len(buffer) = 0 THEN 0
    ELSE LET recent == Last(5, buffer)
         IN  MaxOf({computeMagnitude(recent[i].rotationRate)
                     : i \in 1..Len(recent)})

(* the population variance of the magnitudes of data.acceleration, in      *)
(* tenths of (m/s^2)^2                                                     *)
computeVariance(buffer) ==
    IF Len(buffer) < 2 THEN 0
    ELSE LET n == Len(buffer)
             magnitudes == [i \in 1..n |-> computeMagnitude(buffer[i].acceleration)]
             squares == [i \in 1..n |-> magnitudes[i] * magnitudes[i]]
         IN  (n * Sum(squares) - Sum(magnitudes) * Sum(magnitudes))
                \div (10 * n * n)

(* the result of extractFeatures that means not enough data *)
Null == [null |-> TRUE]

(* faulty variant: ten samples are not yet enough *)
extractFeatures_Eleven(buffer, g) ==
    IF Len(buffer) <= MIN_SAMPLES THEN [features |-> Null, gravity |-> g]
    ELSE LET r == magnitudesOf(buffer, g)
             n == Len(buffer)
         IN  [features |-> Features(r.magnitudes[n], computeJerk(buffer),
                                    computeVariance(buffer),
                                    MaxOf({r.magnitudes[i] : i \in 1..n}),
                                    Sum(r.magnitudes) \div n,
                                    computeRotationMagnitude(buffer)),
              gravity |-> r.gravity]

(* extractFeatures: what it returns and the gravity filter it leaves *)
extractFeatures(buffer, g) ==
    IF Len(buffer) < MIN_SAMPLES THEN [features |-> Null, gravity |-> g]
    ELSE LET r == magnitudesOf(buffer, g)
             n == Len(buffer)
         IN  [features |-> Features(r.magnitudes[n], computeJerk(buffer),
                                    computeVariance(buffer),
                                    MaxOf({r.magnitudes[i] : i \in 1..n}),
                                    Sum(r.magnitudes) \div n,
                                    computeRotationMagnitude(buffer)),
              gravity |-> r.gravity]

(* a call of the analyzer or a run of the motion effect, as recorded: what *)
(* it returned, the length of the buffer after it, the gravity filter and  *)
(* the scorer it found, and the call before it with what that returned     *)
Tick(op, features, length) ==
    [op |-> op, features |-> features, length |-> length,
     ndetect |-> ndetect, call |-> call, gravity |-> gravityFilter,
     after |-> tick.op, last |-> tick.features]

(* new MotionAnalyzer(50, 60): the fields as initialised, nothing returned  *)
(* and, for the twin, the number of extractFeatures calls it has received  *)
(* and whether the gravity filter of the first had left zero when it was   *)
(* cleared                                                                 *)
NewAnalyzer ==
    [dataBuffer |-> <<>>, gravityFilter |-> Zero, features |-> Null,
     calls |-> 0, filtered |-> FALSE]

(* faulty variant: the gravity filter survives the clear *)
Clear_KeepGravity ==
    /\ dataBuffer' = <<>>
    /\ added' = <<>>
    /\ twin' = [NewAnalyzer EXCEPT !.filtered = gravityFilter # Zero]
    /\ UNCHANGED gravityFilter

(* clear() *)
Clear ==
    /\ dataBuffer' = <<>>
    /\ gravityFilter' = Zero
    /\ added' = <<>>
    /\ twin' = [NewAnalyzer EXCEPT !.filtered = gravityFilter # Zero]

(* addData(data) *)
AddData(data) ==
    /\ dataBuffer' = addData(dataBuffer, data)
    /\ added' = Append(added, data)
    /\ twin' = [twin EXCEPT !.dataBuffer = addData(@, data)]
    /\ tick' = Tick("addData", Null, Len(dataBuffer'))
    /\ UNCHANGED gravityFilter

(* extractFeatures() on the twin *)
FeedTwin ==
    LET r == extractFeatures(twin.dataBuffer, twin.gravityFilter)
    IN  [twin EXCEPT !.gravityFilter = r.gravity, !.features = r.features,
                     !.calls = @ + 1]

(* extractFeatures() *)
ExtractFeatures ==
    LET r == extractFeatures(dataBuffer, gravityFilter)
    IN  /\ gravityFilter' = r.gravity
        /\ twin' = FeedTwin
        /\ tick' = Tick("extractFeatures", r.features, Len(dataBuffer))
        /\ UNCHANGED <<dataBuffer, added>>

AnalyzerInit ==
    /\ dataBuffer = <<>>
    /\ gravityFilter = Zero
    /\ tick = [op |-> "init", features |-> Null, length |-> 0,
               ndetect |-> ndetect, call |-> call, gravity |-> Zero,
               after |-> "init", last |-> Null]
    /\ added = <<>>
    /\ twin = NewAnalyzer

(* App and useMotionSensors as mounted, in a browser that has               *)
(* DeviceMotionEvent: checkAvailability has set available                   *)
AppInit ==
    /\ isMonitoring = FALSE
    /\ status = [available |-> TRUE, permission |-> "prompt", active |-> FALSE]
    /\ listening = FALSE
    /\ sensorData = <<>>
    /\ saveToDatabase = TRUE
    /\ saves = <<>>
    /\ detectionsTable = <<>>
    /\ alertsTable = <<>>

----------------------------------------------------------------------------
(* The feature vectors fed to the detector *)

Still      == Features(10, 0, 0, 10, 10, 0)
Hit        == Features(450, 2500, 300, 450, 230, 0)
Bump       == Features(450, 1000, 100, 450, 50, 0)
Sustained  == Features(10, 2100, 210, 330, 230, 0)

Inputs == {Still, Hit, Bump, Sustained}

ScorerInit ==
    /\ fallDetectionState = "idle"
    /\ fallStateTimestamp = 0
    /\ recentFeatures = <<>>
    /\ now = Epoch
    /\ ret = NoDetection
    /\ call = NoCall
    /\ ndetect = 0
    /\ fresh = FreshOff
    /\ passed = <<>>
    /\ replica = NewScorer

Init == ScorerInit /\ ManagerInit("suspended") /\ AnalyzerInit /\ AppInit

DetectCall ==
    /\ \E f \in Inputs : \E dt \in Gaps : ndetect < MaxDetects /\ Detect(f, dt)
    /\ UNCHANGED <<alertVars, analyzerVars, appVars>>

(* analyzer.clear() and scorer.reset(), as App.handleStartMonitoring makes   *)
(* them                                                                     *)
ResetCall == Reset /\ Clear /\ UNCHANGED <<alertVars, tick, appVars>>

Next == DetectCall \/ ResetCall

Spec == Init /\ [][Next]_vars

(* the same detector fed the samples a fall is made of, with the            *)
(* comparison scorer brought in at any point                                *)
FallInputs == {Still, Hit, Bump}

FallDetectCall ==
    /\ \E f \in FallInputs : \E dt \in Gaps : ndetect < MaxDetects /\ Detect(f, dt)
    /\ UNCHANGED <<alertVars, analyzerVars, appVars>>

NextStuck == FallDetectCall \/ ResetCall \/ Fork

SpecStuck == Init /\ [][NextStuck]_vars

----------------------------------------------------------------------------
(* detectViolentMovement as a function of the feature vector alone: the     *)
(* vector is drawn from a grid around the thresholds and the sub-detector   *)
(* is applied to it once.                                                   *)

ViolentGrid ==
    {Features(p, j, v, p, p, r) : j \in {1000, 1300, 1450, 1600, 3800},
                                   p \in {200, 240, 340, 360, 900},
                                   r \in {0, 4500, 5100},
                                   v \in {100, 200, 260}}

InitViolent ==
    /\ fallDetectionState = "idle"
    /\ fallStateTimestamp = 0
    /\ recentFeatures = <<>>
    /\ now = Epoch
    /\ ret = NoDetection
    /\ ndetect = 0
    /\ fresh = FreshOff
    /\ passed = <<>>
    /\ replica = NewScorer
    /\ ManagerInit("suspended")
    /\ \E f \in ViolentGrid : call = [NoCall EXCEPT !.op = "input", !.f = f]
    /\ AnalyzerInit
    /\ AppInit

ApplyViolent ==
    /\ call.op = "input"
    /\ ret' = detectViolentMovement(call.f)
    /\ call' = [call EXCEPT !.op = "violent"]
    /\ UNCHANGED <<fallDetectionState, fallStateTimestamp, recentFeatures,
                   now, ndetect, fresh, passed, replica>>
    /\ UNCHANGED <<alertVars, analyzerVars, appVars>>

SpecViolent == InitViolent /\ [][ApplyViolent]_vars

----------------------------------------------------------------------------
(* The detector fed sustained motion: vectors around the thresholds of the  *)
(* abnormal-motion sub-detector and of the normal-activity profiles, one    *)
(* every 200 ms, long enough for the trend over the history to count.       *)

Brisk  == Features(210, 1450, 100, 210, 210, 0)
Surge  == Features(330, 1450, 210, 330, 230, 0)
Jog    == Features(330, 1000, 210, 330, 230, 0)
Fumble == Features(210, 1600, 260, 210, 150, 0)

TrendInputs == {Brisk, Surge, Jog, Fumble}

TrendDetectCall ==
    /\ \E f \in TrendInputs : ndetect < MaxTrend /\ Detect(f, 200)
    /\ UNCHANGED <<alertVars, analyzerVars, appVars>>

NextTrend == TrendDetectCall

SpecTrend == Init /\ [][NextTrend]_vars

----------------------------------------------------------------------------
(* The detector called more often than its history is long: one vector     *)
(* every 200 ms, with a reset at any moment.                                *)

HistoryInputs == {Still, Surge}

HistoryDetectCall ==
    /\ \E f \in HistoryInputs : ndetect < MaxHistory /\ Detect(f, 200)
    /\ UNCHANGED <<alertVars, analyzerVars, appVars>>

NextHistory == HistoryDetectCall \/ ResetCall

SpecHistory == Init /\ [][NextHistory]_vars

----------------------------------------------------------------------------
(* The AlertManager under its callers: the alert evaluation of the motion   *)
(* effect, the test button, the settings, and the audio events.             *)

Min(a, b) == IF a < b THEN a ELSE b

Max(a, b) == IF a > b THEN a ELSE b

(* the delays between two consecutive calls *)
AlertGaps == {100, 2600, 6000}

(* results of detect *)
Detections ==
    {NoDetection, Result("fall", 8000), Result("violent_movement", 9000)}

Partials ==
    {[enabled |-> FALSE], [soundEnabled |-> FALSE],
     [confidenceThreshold |-> 9000], DefaultConfig}

Contexts == {"null", "suspended", "running"}

(* no tone has ended before timestamp without its onended having run *)
NoOverdue(timestamp) == \A n \in tones : timestamp <= n.due

(* App: if (alertManager.shouldAlert(detection)) { triggerAlert; setRecentAlerts } *)
PipelineAlert(detection, played, dt) ==
    LET timestamp == now + dt
        m == Manager
        go == shouldAlert(m, detection, timestamp)
        entry == [type |-> detection.type, confidence |-> detection.confidence,
                  at |-> timestamp]
    IN  /\ timestamp <= MaxAlertTime
        /\ NoOverdue(timestamp)
        /\ now' = timestamp
        /\ Commit(IF go THEN triggerAlert(m, detection, "pipeline", "return",
                                          played, timestamp)
                        ELSE m)
        /\ recentAlerts' =
              IF go THEN SubSeq(<<entry>> \o recentAlerts, 1,
                                Min(RECENT_ALERTS, Len(recentAlerts) + 1))
                    ELSE recentAlerts
        /\ acall' = AlertCall("shouldAlert", detection, timestamp, go,
                              NoPartial, m)
        /\ nalert' = nalert + 1
        /\ UNCHANGED alertConfig

(* App.handleTestAlert *)
TestAlert(played, dt) ==
    LET timestamp == now + dt
        m == Manager
    IN  /\ timestamp <= MaxAlertTime
        /\ NoOverdue(timestamp)
        /\ now' = timestamp
        /\ Commit(testAlert(m, played, timestamp))
        /\ acall' = AlertCall("testAlert", TestDetection, timestamp, FALSE,
                              NoPartial, m)
        /\ nalert' = nalert + 1
        /\ UNCHANGED <<recentAlerts, alertConfig>>

StopAlert(stopThrows) ==
    LET m == Manager
    IN  /\ Commit(stopAlert(m, stopThrows, now))
        /\ acall' = [AlertCall("stopAlert", NoDetection, now, FALSE,
                               NoPartial, m)
                        EXCEPT !.error = stopAlertError(m, stopThrows)]
        /\ nalert' = nalert + 1
        /\ UNCHANGED <<now, recentAlerts, alertConfig>>

(* App: setAlertConfig with the fields of partial changed, and the effect   *)
(* on alertConfig that passes the new config on                             *)
UpdateConfig(partial) ==
    LET m == Manager
    IN  /\ alertConfig' = Merge(alertConfig, partial)
        /\ Commit(updateConfig(m, partial))
        /\ acall' = AlertCall("updateConfig", NoDetection, now, FALSE,
                              partial, m)
        /\ nalert' = nalert + 1
        /\ UNCHANGED <<now, recentAlerts>>

(* the promise of audioContext.resume() settles *)
Resumed(played) ==
    LET m == Manager
    IN  /\ waiting # <<>>
        /\ Commit(resumed(m, played, now))
        /\ acall' = AlertCall("resumed", NoDetection, now, FALSE, NoPartial, m)
        /\ UNCHANGED <<now, recentAlerts, alertConfig, nalert>>

(* oscillator.onended of node n, at the end of its tone *)
OnEnded(n) ==
    LET m == Manager
    IN  /\ n \in tones
        /\ \A o \in tones : n.due <= o.due
        /\ now' = Max(now, n.due)
        /\ Commit(cleanup([m EXCEPT !.tones = @ \ {n}]))
        /\ acall' = AlertCall("onended", NoDetection, Max(now, n.due), FALSE,
                              NoPartial, m)
        /\ UNCHANGED <<recentAlerts, alertConfig, nalert>>

InitAlert ==
    /\ ScorerInit
    /\ \E context \in Contexts : ManagerInit(context)
    /\ AnalyzerInit
    /\ AppInit

PipelineAlertCall ==
    /\ nalert < MaxAlertCalls
    /\ \E detection \in Detections : \E played \in BOOLEAN : \E dt \in AlertGaps :
          PipelineAlert(detection, played, dt)
    /\ UNCHANGED <<scorerVars, analyzerVars, appVars>>

TestAlertCall ==
    /\ nalert < MaxAlertCalls
    /\ \E played \in BOOLEAN : \E dt \in AlertGaps : TestAlert(played, dt)
    /\ UNCHANGED <<scorerVars, analyzerVars, appVars>>

StopAlertCall ==
    /\ nalert < MaxAlertCalls
    /\ \E stopThrows \in BOOLEAN : StopAlert(stopThrows)
    /\ UNCHANGED <<scorerVars, analyzerVars, appVars>>

UpdateConfigCall ==
    /\ nalert < MaxAlertCalls
    /\ \E partial \in Partials : UpdateConfig(partial)
    /\ UNCHANGED <<scorerVars, analyzerVars, appVars>>

ResumedCall ==
    /\ \E played \in BOOLEAN : Resumed(played)
    /\ UNCHANGED <<scorerVars, analyzerVars, appVars>>

OnEndedCall ==
    /\ \E n \in tones : OnEnded(n)
    /\ UNCHANGED <<scorerVars, analyzerVars, appVars>>

NextAlert ==
    \/ PipelineAlertCall
    \/ TestAlertCall
    \/ StopAlertCall
    \/ UpdateConfigCall
    \/ ResumedCall
    \/ OnEndedCall

SpecAlert == InitAlert /\ [][NextAlert]_vars

(* The alert manager called by a caller that starts a test alert in the     *)
(* task that stopped the previous one (gap 0), or well after it: the ended  *)
(* event of a stopped oscillator is dispatched in a later task.             *)
PromptGaps == {0, 2600}

PromptTestAlertCall ==
    /\ nalert < MaxAlertCalls
    /\ \E played \in BOOLEAN : \E dt \in PromptGaps : TestAlert(played, dt)
    /\ UNCHANGED <<scorerVars, analyzerVars, appVars>>

NextStale ==
    \/ PromptTestAlertCall
    \/ StopAlertCall
    \/ ResumedCall
    \/ OnEndedCall

SpecStale == InitAlert /\ [][NextStale]_vars

----------------------------------------------------------------------------
(* The pipeline: the motion effect of App run on a sample the sensor has    *)
(* delivered while monitoring.  The write to the database is left out.      *)

MotionData(accel, withGravity, rotation) ==
    [timestamp |-> 0, acceleration |-> accel,
     accelerationIncludingGravity |-> withGravity, rotationRate |-> rotation]

(* a device at rest that reports no linear acceleration, and one shaken *)
AtRest == MotionData(Zero, Vec(0, 0, 98), Zero)
Shaken == MotionData(Vec(30, 0, 40), Vec(30, 0, 138), Vec(100, 0, 0))

Samples == {AtRest, Shaken}

(* the condition under which the motion effect saves a detection *)
shouldSave(saving, detection) ==
    /\ saving
    /\ detection.type # "null"
    /\ detection.confidence >= MIN_CONFIDENCE

(* the promise chain of a detection: DatabaseService.saveDetection, then    *)
(* saveAlert with the id returned.  stage is "detection" while the first    *)
(* insert is awaited, "alert" while the second is, and then how the chain   *)
(* ended.                                                                   *)
Chain(detection, timestamp) ==
    [type |-> detection.type, confidence |-> detection.confidence,
     at |-> timestamp, stage |-> "detection", id |-> 0]

(* the body of the motion effect for the sample held in the data state of   *)
(* the hook, isMonitoring being true; saving is the saveToDatabase of the   *)
(* render the effect belongs to                                             *)
RunEffect(data, saving, played, dt) ==
    LET buffer == addData(dataBuffer, data)
        r == extractFeatures(buffer, gravityFilter)
    IN  /\ dataBuffer' = buffer
        /\ gravityFilter' = r.gravity
        /\ added' = Append(added, data)
        /\ twin' = LET t == addData(twin.dataBuffer, data)
                       e == extractFeatures(t, twin.gravityFilter)
                   IN  [twin EXCEPT !.dataBuffer = t,
                                    !.gravityFilter = e.gravity,
                                    !.features = e.features, !.calls = @ + 1]
        /\ tick' = Tick("effect", r.features, Len(buffer))
        /\ IF r.features = Null
           THEN /\ now' = now + dt
                /\ UNCHANGED <<scorerVars, alertVars, saves>>
           ELSE /\ Detect(r.features, dt)
                /\ saves' = IF shouldSave(saving, ret')
                            THEN Append(saves, Chain(ret', now'))
                            ELSE saves
                /\ PipelineAlert(ret', played, dt)

(* a devicemotion event: handleMotionEvent stamps the sample and sets the   *)
(* data state, and the motion effect runs for it                            *)
MotionEffect(sample, played, dt) ==
    LET data == [sample EXCEPT !.timestamp = now + dt]
    IN  /\ listening
        /\ status.permission # "denied"
        /\ sensorData' = <<data>>
        /\ IF isMonitoring
           THEN RunEffect(data, saveToDatabase, played, dt)
           ELSE /\ now' = now + dt
                /\ UNCHANGED <<scorerVars, alertVars, analyzerVars, saves>>

(* useMotionSensors.requestPermission: answer is what                       *)
(* DeviceMotionEvent.requestPermission resolved to, "not_required" where    *)
(* the browser has no such function, "denied" also when the request threw   *)
requestPermission(s, answer) ==
    IF ~s.available THEN s ELSE [s EXCEPT !.permission = answer]

(* useMotionSensors.startMonitoring on the hook state s: seen is the status *)
(* of the render the callback was made in, which its two guards read        *)
startMonitoring(s, l, seen) ==
    IF ~seen.available \/ seen.permission = "denied"
    THEN [status |-> s, listening |-> l]
    ELSE [status |-> [s EXCEPT !.active = TRUE], listening |-> TRUE]

(* useMotionSensors.stopMonitoring *)
stopMonitoring(s, l) ==
    [status |-> [s EXCEPT !.active = FALSE], listening |-> FALSE]

(* App.handleStartMonitoring, behind the Start button, shown while not     *)
(* monitoring, and the motion effect that runs because isMonitoring has     *)
(* changed: it finds the sample the data state still holds, which is fewer  *)
(* than the 10 that extractFeatures needs                                   *)
handleStartMonitoring(answer) ==
    /\ ~isMonitoring
    /\ LET s1 == IF status.permission = "prompt"
                 THEN requestPermission(status, answer) ELSE status
           h == startMonitoring(s1, listening, status)
       IN  /\ status' = h.status
           /\ listening' = h.listening
    /\ isMonitoring' = TRUE
    /\ Reset
    /\ IF sensorData = <<>>
       THEN /\ Clear
            /\ tick' = Tick("start", Null, 0)
       ELSE LET data == sensorData[1]
                buffer == addData(<<>>, data)
                r == extractFeatures(buffer, Zero)
            IN  /\ dataBuffer' = buffer
                /\ gravityFilter' = r.gravity
                /\ added' = <<data>>
                /\ twin' = LET t == [NewAnalyzer EXCEPT
                                        !.filtered = gravityFilter # Zero]
                               b == addData(t.dataBuffer, data)
                               e == extractFeatures(b, t.gravityFilter)
                           IN  [t EXCEPT !.dataBuffer = b,
                                         !.gravityFilter = e.gravity,
                                         !.features = e.features,
                                         !.calls = @ + 1]
                /\ tick' = Tick("start", r.features, Len(buffer))
    /\ UNCHANGED <<alertVars, sensorData, saveToDatabase, dbVars>>

(* App.handleStopMonitoring, behind the Stop button, shown while            *)
(* monitoring; the motion effect runs and returns at once                   *)
handleStopMonitoring ==
    /\ isMonitoring
    /\ isMonitoring' = FALSE
    /\ LET h == stopMonitoring(status, listening)
       IN  /\ status' = h.status
           /\ listening' = h.listening
    /\ UNCHANGED <<now, scorerVars, alertVars, analyzerVars, sensorData,
                   saveToDatabase, dbVars>>

(* the user grants the motion permission when asked *)
GrantedStartCall == handleStartMonitoring("granted")

(* the Save to Database checkbox, and the motion effect that runs because   *)
(* saveToDatabase has changed: it finds the sample the data state holds     *)
ToggleSave(played, dt) ==
    /\ saveToDatabase' = ~saveToDatabase
    /\ IF sensorData # <<>> /\ isMonitoring
       THEN RunEffect(sensorData[1], saveToDatabase', played, dt)
       ELSE UNCHANGED <<now, scorerVars, alertVars, analyzerVars, saves>>
    /\ UNCHANGED <<isMonitoring, hookVars, detectionsTable, alertsTable>>

(* faulty variant: the alert row is written only for a detection that the   *)
(* alert threshold of the default config lets through                       *)
saveDetectionThen_IfAlerted(chain, id) ==
    IF id = 0 THEN [chain EXCEPT !.stage = "detection_failed"]
    ELSE IF chain.confidence >= DefaultConfig.confidenceThreshold
         THEN [chain EXCEPT !.stage = "alert", !.id = id]
         ELSE [chain EXCEPT !.stage = "no_alert", !.id = id]

(* the first then of the chain: id is what saveDetection resolved to, 0 for *)
(* null                                                                     *)
saveDetectionThen(chain, id) ==
    IF id = 0 THEN [chain EXCEPT !.stage = "detection_failed"]
    ELSE [chain EXCEPT !.stage = "alert", !.id = id]

(* DatabaseService.saveDetection settles for chain i: the insert went       *)
(* through and returned the id of the new row, or it failed and null was    *)
(* returned                                                                 *)
SaveDetectionDone(i, ok) ==
    LET chain == saves[i]
        id == IF ok THEN Len(detectionsTable) + 1 ELSE 0
    IN  /\ chain.stage = "detection"
        /\ detectionsTable' =
              IF ok THEN Append(detectionsTable,
                                [id |-> id, type |-> chain.type,
                                 confidence |-> chain.confidence,
                                 at |-> chain.at])
                    ELSE detectionsTable
        /\ saves' = [saves EXCEPT ![i] = saveDetectionThen(chain, id)]
        /\ UNCHANGED alertsTable

(* DatabaseService.saveAlert settles for chain i, the location obtained or  *)
(* not: the insert went through, or it failed and false was returned        *)
SaveAlertDone(i, ok) ==
    LET chain == saves[i]
    IN  /\ chain.stage = "alert"
        /\ alertsTable' =
              IF ok THEN Append(alertsTable,
                                [detection_id |-> chain.id,
                                 type |-> chain.type,
                                 confidence |-> chain.confidence,
                                 at |-> chain.at])
                    ELSE alertsTable
        /\ saves' = [saves EXCEPT ![i].stage =
                                     IF ok THEN "done" ELSE "alert_failed"]
        /\ UNCHANGED detectionsTable

MotionEffectCall ==
    /\ isMonitoring
    /\ \E sample \in Samples : \E played \in BOOLEAN :
          Len(dataBuffer) < MaxSamples /\ MotionEffect(sample, played, 16)
    /\ UNCHANGED effectFrame

NextPipeline == GrantedStartCall \/ MotionEffectCall

SpecPipeline == Init /\ [][NextPipeline]_vars

----------------------------------------------------------------------------
(* The analyzer filled beyond its capacity: samples arrive 16 ms apart, the *)
(* first ones of either kind, and the analyzer is cleared at any moment.    *)

(* the number of samples after a clear that are of either kind *)
Varied == 2

(* the timestamp of the next sample *)
NextStamp ==
    IF added = <<>> THEN Epoch ELSE added[Len(added)].timestamp + 16

AddDataCall ==
    /\ Len(added) < MaxWindow
    /\ \E sample \in (IF Len(added) < Varied THEN Samples ELSE {AtRest}) :
          AddData([sample EXCEPT !.timestamp = NextStamp])
    /\ UNCHANGED <<now, scorerVars, alertVars, appVars>>

ClearCall ==
    /\ Clear
    /\ tick' = Tick("clear", Null, 0)
    /\ UNCHANGED <<now, scorerVars, alertVars, appVars>>

NextWindow == AddDataCall \/ ClearCall

SpecWindow == Init /\ [][NextWindow]_vars

----------------------------------------------------------------------------
(* The analyzer called method by method: a few samples more than            *)
(* extractFeatures asks for, extractFeatures at any moment, a clear at any  *)
(* moment.                                                                  *)

ShortAddDataCall == Len(added) < MaxSamples /\ AddDataCall

ExtractFeaturesCall ==
    /\ twin.calls < MaxExtracts
    /\ ExtractFeatures
    /\ UNCHANGED <<now, scorerVars, alertVars, appVars>>

NextAnalyzer == ShortAddDataCall \/ ExtractFeaturesCall \/ ClearCall

SpecAnalyzer == Init /\ [][NextAnalyzer]_vars

----------------------------------------------------------------------------
(* Monitoring sessions: the Start and Stop buttons, and the motion effect   *)
(* on a sample every 16 ms while monitoring.                                *)

SessionEffectCall ==
    /\ isMonitoring
    /\ now + 16 <= Epoch + 16 * MaxSession
    /\ \E sample \in (IF Len(added) < Varied THEN Samples ELSE {AtRest}) :
          \E played \in BOOLEAN : MotionEffect(sample, played, 16)
    /\ UNCHANGED effectFrame

NextSession ==
    GrantedStartCall \/ handleStopMonitoring \/ SessionEffectCall

SpecSession == Init /\ [][NextSession]_vars

(* Sessions of a user who may grant or deny the motion permission when the  *)
(* first start asks for it, in a browser with or without the request.       *)
Answers == {"granted", "denied", "not_required"}

StartCall == \E answer \in Answers : handleStartMonitoring(answer)

NextSensor == StartCall \/ handleStopMonitoring \/ SessionEffectCall

SpecSensor == Init /\ [][NextSensor]_vars

(* A session in which the device lies still and is then hit, with the       *)
(* detections saved: the option can be changed before the first sample.     *)
Quiet  == MotionData(Vec(1, 0, 0), Vec(1, 0, 98), Zero)
Impact == MotionData(Vec(450, 0, 0), Vec(450, 0, 98), Zero)

DatabaseEffectCall ==
    /\ isMonitoring
    /\ Len(added) < MaxRecorded
    /\ \E sample \in (IF Len(added) < MIN_SAMPLES THEN {Quiet}
                                                  ELSE {Quiet, Impact}) :
          \E played \in BOOLEAN : MotionEffect(sample, played, 16)
    /\ UNCHANGED effectFrame

EarlyToggleSaveCall ==
    /\ sensorData = <<>>
    /\ \E played \in BOOLEAN : ToggleSave(played, 16)

SaveDetectionDoneCall ==
    /\ \E i \in DOMAIN saves : \E ok \in BOOLEAN : SaveDetectionDone(i, ok)
    /\ UNCHANGED <<now, scorerVars, alertVars, analyzerVars, isMonitoring,
                   hookVars, saveToDatabase>>

SaveAlertDoneCall ==
    /\ \E i \in DOMAIN saves : \E ok \in BOOLEAN : SaveAlertDone(i, ok)
    /\ UNCHANGED <<now, scorerVars, alertVars, analyzerVars, isMonitoring,
                   hookVars, saveToDatabase>>

NextDatabase ==
    \/ GrantedStartCall
    \/ DatabaseEffectCall
    \/ EarlyToggleSaveCall
    \/ SaveDetectionDoneCall
    \/ SaveAlertDoneCall

SpecDatabase == Init /\ [][NextDatabase]_vars

(* A session in which the option is changed while samples arrive. *)
ToggleEffectCall ==
    /\ isMonitoring
    /\ Len(added) < MaxToggled
    /\ \E played \in BOOLEAN : MotionEffect(Quiet, played, 16)
    /\ UNCHANGED effectFrame

ToggleSaveCall ==
    /\ Len(added) < MaxToggled
    /\ \E played \in BOOLEAN : ToggleSave(played, 16)

NextToggle == GrantedStartCall \/ ToggleEffectCall \/ ToggleSaveCall

SpecToggle == Init /\ [][NextToggle]_vars

----------------------------------------------------------------------------
(* extractFeatures as a function of the buffer: the buffer is drawn from a  *)
(* set of windows of 10 and 11 samples, added to a new analyzer, and        *)
(* extractFeatures is called on it, more than once.  A window is a first    *)
(* sample, a run of samples of a device at rest, and two last samples; the  *)
(* timestamps of consecutive samples may be equal, and may go back when the *)
(* clock of the device is set back.                                         *)

(* a sample, to be stamped dt after the sample before it *)
Item(sample, dt) == [sample |-> sample, dt |-> dt]

RECURSIVE Stamped(_, _)
Stamped(items, t) ==
    IF items = <<>> THEN <<>>
    ELSE LET at == t + Head(items).dt
         IN  <<[Head(items).sample EXCEPT !.timestamp = at]>>
                \o Stamped(Tail(items), at)

(* the lengths of the run at rest, and the steps of the timestamp *)
Leads == {7, 8}

Deltas == {-16, 0, 16}

Windows ==
    {Stamped(<<Item(first, 0)>> \o [i \in 1..lead |-> Item(AtRest, gap)]
                \o <<Item(a, da), Item(b, db)>>, Epoch)
       : first \in Samples, lead \in Leads, gap \in {0, 16},
         a \in Samples, da \in Deltas, b \in Samples, db \in Deltas}

InitFeatures ==
    /\ ScorerInit
    /\ ManagerInit("suspended")
    /\ AppInit
    /\ \E w \in Windows :
          /\ dataBuffer = w
          /\ added = w
          /\ twin = [NewAnalyzer EXCEPT !.dataBuffer = w]
          /\ tick = [op |-> "addData", features |-> Null, length |-> Len(w),
                     ndetect |-> ndetect, call |-> call, gravity |-> Zero,
                     after |-> "addData", last |-> Null]
    /\ gravityFilter = Zero

NextFeatures == ExtractFeaturesCall

SpecFeatures == InitFeatures /\ [][NextFeatures]_vars

----------------------------------------------------------------------------
(* What the last detect call saw *)

IsDetect == call.op = "detect"

(* time between the last recorded fall transition and the call *)
Elapsed == call.at - call.stamp

(* the call found the fall sequence timed out *)
Stale == Elapsed > FALL_SEQUENCE_TIMEOUT

ImpactSeen == ImpactLike(call.f)

Fall(c) == [type |-> "fall", confidence |-> c]

----------------------------------------------------------------------------
(* C1 (as stated): in FreeFall a detect call enters Impact, reporting Fall  *)
(* with confidence 0.75, only when peakAcceleration > IMPACT_MIN, jerk >    *)
(* JERK_SPIKE_MIN and at least 300 ms have elapsed since FreeFall was       *)
(* entered.                                                                 *)
C1_ImpactNeedsDuration ==
    (IsDetect /\ call.state = "free_fall" /\ fallDetectionState = "impact")
        => /\ ImpactSeen
           /\ Elapsed >= 300
           /\ ret = Fall(7500)

(* C1 (amended): in FreeFall a detect call enters Impact exactly when the   *)
(* sequence has not timed out and both peakAcceleration > IMPACT_MIN and    *)
(* jerk > JERK_SPIKE_MIN hold, whatever the time spent in FreeFall; it then *)
(* reports Fall with confidence 0.65 and stamps the transition.             *)
C1_ImpactOnPeakAndJerk ==
    (IsDetect /\ call.state = "free_fall")
        => /\ (fallDetectionState = "impact") <=> (~Stale /\ ImpactSeen)
           /\ fallDetectionState = "impact"
                => ret = Fall(6500) /\ fallStateTimestamp = call.at

C1_Witness ==
    /\ IsDetect /\ call.state = "free_fall" /\ fallDetectionState = "impact"
    /\ Elapsed > 0 /\ Elapsed < 300

(* C2 (as stated): in Impact, averageAcceleration < INACTIVITY_MAX leads to *)
(* PostImpact with Fall 0.85; any other call leads to Idle and produces no  *)
(* Fall classification.                                                     *)
C2_RejectedImpactSilent ==
    (IsDetect /\ call.state = "impact")
        => IF call.f.averageAcceleration < INACTIVITY_MAX
           THEN fallDetectionState = "post_impact" /\ ret = Fall(8500)
           ELSE fallDetectionState = "idle" /\ ret.type # "fall"

(* C2 (amended): in Impact, before the timeout, averageAcceleration <       *)
(* INACTIVITY_MAX leads to PostImpact with Fall 0.8; any other call leads   *)
(* to Idle and is still reported as Fall, with confidence 0.2.              *)
C2_ImpactStep ==
    (IsDetect /\ call.state = "impact" /\ ~Stale)
        => IF call.f.averageAcceleration < INACTIVITY_MAX
           THEN /\ fallDetectionState = "post_impact"
                /\ fallStateTimestamp = call.at
                /\ ret = Fall(8000)
           ELSE /\ fallDetectionState = "idle"
                /\ fallStateTimestamp = call.stamp
                /\ ret = Fall(2000)

C2_Witness ==
    /\ IsDetect /\ call.state = "impact" /\ ~Stale
    /\ call.f.averageAcceleration >= INACTIVITY_MAX
    /\ fallDetectionState = "idle" /\ ret.type = "fall"

FallEdges ==
    {<<"idle", "idle">>, <<"idle", "free_fall">>,
     <<"free_fall", "free_fall">>, <<"free_fall", "impact">>,
     <<"free_fall", "idle">>,
     <<"impact", "post_impact">>, <<"impact", "idle">>,
     <<"post_impact", "post_impact">>, <<"post_impact", "idle">>}

EntersFreeFall ==
    fallDetectionState = "free_fall" /\ (call.state # "free_fall" \/ Stale)

FallEdgesOnly ==
    /\ IsDetect /\ ~Stale => <<call.state, fallDetectionState>> \in FallEdges
    /\ IsDetect /\ Stale => fallDetectionState \in {"idle", "free_fall"}
    /\ call.op = "reset" => fallDetectionState = "idle"
    /\ fallDetectionState = "impact" => IsDetect /\ call.state = "free_fall"
    /\ fallDetectionState = "post_impact"
          => IsDetect /\ call.state \in {"impact", "post_impact"}

C5_TimeoutJudgedAsIdle ==
    (IsDetect /\ Stale)
        => /\ ret.type # "fall"
           /\ IF call.f.magnitude < FREE_FALL_MAX
              THEN fallDetectionState = "free_fall" /\ fallStateTimestamp = call.at
              ELSE fallDetectionState = "idle" /\ fallStateTimestamp = call.stamp

(* a stale Impact meets a sample that would otherwise complete the fall *)
C5_Witness ==
    /\ IsDetect /\ Stale /\ call.state = "impact"
    /\ call.f.averageAcceleration < INACTIVITY_MAX
    /\ fallDetectionState # "post_impact"

(* the confidence of the Fall classification in the last result, 0 if none *)
FallConfidence == IF ret.type = "fall" THEN ret.confidence ELSE 0

(* the last call moved the fall state machine and classified the sample    *)
(* as the comparison scorer did                                            *)
SameAsFresh ==
    /\ fallDetectionState = fresh.state
    /\ FallConfidence = fresh.confidence

(* C6 (as stated): from every reachable state, a complete fall sequence fed *)
(* afterwards is detected exactly as a freshly reset detector detects it.   *)
C6_AnyStateDetectsAsFresh ==
    (fresh.on /\ fresh.stage >= 1) => SameAsFresh

(* C6 (amended): from every state in which the detector is Idle or has had  *)
(* no state transition for more than 2000 ms when the sequence starts (in   *)
(* particular a FreeFall that timed out), a complete fall sequence is       *)
(* detected exactly as a freshly reset detector detects it, with the same   *)
(* Impact and PostImpact Fall classifications; a FreeFall, Impact or        *)
(* PostImpact that has not timed out yet can classify it differently.       *)
C6_SettledStateDetectsAsFresh ==
    (fresh.on /\ fresh.stage >= 1 /\ fresh.settled) => SameAsFresh

(* a FreeFall left without transition for over 2000 ms, then a whole fall *)
C6_Witness ==
    /\ fresh.on /\ fresh.settled /\ fresh.from = "free_fall"
    /\ fresh.stage = 3
    /\ fallDetectionState = "post_impact" /\ ret = Fall(8000)

(* the fall sub-detector qualified on the last call *)
FallQualified ==
    /\ ~Stale
    /\ \/ call.state = "free_fall" /\ ImpactSeen
       \/ call.state = "impact"
       \/ call.state = "post_impact"

(* C7 (as stated): every classification returned by detect is None with    *)
(* confidence 0 or has a confidence of at least 0.75.                       *)
C7_MinimumConfidenceGate ==
    IsDetect => ret = NoDetection \/ ret.confidence >= MIN_CONFIDENCE

(* C7 (amended): detect applies no minimum: it returns the winning          *)
(* sub-detector's result with whatever positive confidence it has.  A       *)
(* returned confidence reaches 0.75 exactly for a Fall accepted from Impact *)
(* or found in PostImpact, and for a ViolentMovement with at least three    *)
(* indicators returned when the fall sub-detector did not qualify.          *)
C7_WhenConfidenceReachesMinimum ==
    IsDetect =>
        /\ ret = NoDetection \/ (ret.type # "null" /\ ret.confidence > 0)
        /\ (ret.confidence >= MIN_CONFIDENCE) <=>
              \/ /\ ~Stale /\ call.state = "impact"
                 /\ call.f.averageAcceleration < INACTIVITY_MAX
              \/ ~Stale /\ call.state = "post_impact"
              \/ ~FallQualified /\ triggeredCount(call.f) >= 3

C7_Witness ==
    /\ IsDetect /\ ret.type \in {"fall", "violent_movement", "abnormal_motion"}
    /\ ret.confidence < MIN_CONFIDENCE
    /\ ndetect > 1

(* C8: in every classification returned by detect, kind # None implies      *)
(* confidence > 0, kind = None implies confidence = 0, and the confidence   *)
(* lies in [0, 1].                                                          *)
C8_KindMatchesConfidence ==
    IsDetect =>
        /\ ret.type \in {"fall", "violent_movement", "abnormal_motion", "null"}
        /\ ret.type # "null" => ret.confidence > 0
        /\ ret.type = "null" => ret.confidence = 0
        /\ ret.confidence >= 0 /\ ret.confidence <= 10000

C8_Witness ==
    /\ IsDetect /\ ret.type = "abnormal_motion" /\ ret.confidence > 0
    /\ ndetect = 1 /\ now > Epoch

(* C9: detect returns the first qualifying sub-detector in the order fall,  *)
(* violent movement, abnormal motion: ViolentMovement only when fall did    *)
(* not qualify, AbnormalMotion only when neither fall nor violent movement  *)
(* qualified, None only when none of the three qualified.                   *)
C9_FirstQualifyingWins ==
    IsDetect =>
        LET vc == violentConfidence(call.f)
            ac == abnormalConfidence(call.f, recentFeatures)
        IN  /\ (ret.type = "fall") <=> FallQualified
            /\ (ret.type = "violent_movement") <=> (~FallQualified /\ vc > 0)
            /\ ret.type = "violent_movement" => ret.confidence = vc
            /\ (ret.type = "abnormal_motion")
                  <=> (~FallQualified /\ vc = 0 /\ ac > 0)
            /\ ret.type = "abnormal_motion" => ret.confidence = ac
            /\ (ret.type = "null") <=> (~FallQualified /\ vc = 0 /\ ac = 0)

(* fall wins although the two other sub-detectors qualify as well *)
C9_Witness ==
    /\ IsDetect /\ ret.type = "fall"
    /\ violentConfidence(call.f) > ret.confidence
    /\ abnormalConfidence(call.f, recentFeatures) > 0

(* the confidence the design document gives for a number of indicators *)
StatedViolentTable(n) ==
    IF n = 4 THEN 9500 ELSE IF n = 3 THEN 8000 ELSE IF n = 2 THEN 6000 ELSE 0

(* C10 (as stated): the violent-movement confidence is a function of the    *)
(* number of triggered indicators: 4 gives 0.95, 3 gives 0.8, 2 gives 0.6,  *)
(* 1 or 0 gives 0.                                                          *)
C10_ConfidenceByCountAsStated ==
    call.op = "violent"
        => ret.confidence = StatedViolentTable(triggeredCount(call.f))

(* C10 (amended): the violent-movement confidence is 0.9 for 4 indicators,  *)
(* 0.75 for 3, 0.5 for 2, and for a single indicator 0.4 when jerk exceeds  *)
(* 2.5 x JERK_HIGH or peakAcceleration exceeds 2.5 x ACCEL_PEAK and 0       *)
(* otherwise; 0 indicators give 0; the value is multiplied by 0.1 when the  *)
(* vector matches a normal-activity profile, which can only happen with at  *)
(* most 2 indicators.                                                       *)
C10_ConfidenceByCount ==
    call.op = "violent" =>
        LET n == triggeredCount(call.f)
            normal == isNormalActivity(call.f)
            extreme == \/ 2 * call.f.jerk > 5 * JERK_HIGH
                       \/ 2 * call.f.peakAcceleration > 5 * ACCELERATION_PEAK
            c == ret.confidence
        IN  /\ n = 4 => c = 9000
            /\ n = 3 => c = 7500
            /\ n = 2 => c = IF normal THEN 500 ELSE 5000
            /\ n = 1 /\ extreme => c = IF normal THEN 400 ELSE 4000
            /\ n = 1 /\ ~extreme => c = 0
            /\ n = 0 => c = 0
            /\ ret.type = IF c > 0 THEN "violent_movement" ELSE "null"

(* one extreme indicator is enough for a classification *)
C10_Witness ==
    /\ call.op = "violent" /\ triggeredCount(call.f) = 1
    /\ ret = [type |-> "violent_movement", confidence |-> 4000]

----------------------------------------------------------------------------
----------------------------------------------------------------------------
(* the current vector exceeds the three thresholds of the abnormal-motion   *)
(* sub-detector                                                             *)
ExceedsAll(f) ==
    f.averageAcceleration > 220 /\ f.variance > 200 /\ f.peakAcceleration > 320

(* how many of the last n vectors of the history, the current one          *)
(* included, exceed the companion threshold 20.0                            *)
HighAmongLast(n) ==
    Cardinality({i \in 1..Len(recentFeatures) :
                    /\ i > Len(recentFeatures) - n
                    /\ recentFeatures[i].averageAcceleration > 200})

(* the last detect call returned what the abnormal-motion sub-detector     *)
(* computed, for a vector outside the normal-activity profiles             *)
AbnormalShown ==
    /\ IsDetect
    /\ ~isNormalActivity(call.f)
    /\ ret.type \notin {"fall", "violent_movement"}

(* C12 (as stated): the abnormal-motion confidence is 0.5 when the three   *)
(* thresholds are exceeded, 0.75 exactly when also at least 6 of the last  *)
(* 7 vectors of the history exceed the companion threshold, and 0 when the *)
(* three thresholds are not all exceeded.                                  *)
C12_AbnormalAsStated ==
    AbnormalShown
        => ret.confidence =
              IF ~ExceedsAll(call.f) THEN 0
              ELSE IF Len(recentFeatures) >= 7 /\ HighAmongLast(7) >= 6
                   THEN 7500 ELSE 5000

(* C12 (amended): the confidence is 0.4 when the three thresholds are      *)
(* exceeded, 0.55 exactly when also the history holds at least 5 vectors   *)
(* and at least 4 of its last 5 exceed the companion threshold, and 0 when *)
(* the three thresholds are not all exceeded.                              *)
C12_AbnormalBaseAndTrend ==
    AbnormalShown
        => ret.confidence =
              IF ~ExceedsAll(call.f) THEN 0
              ELSE IF Len(recentFeatures) >= 5 /\ HighAmongLast(5) >= 4
                   THEN 5500 ELSE 4000

(* the trend raised the confidence with fewer than 6 of the last 7 high    *)
C12_Witness ==
    /\ AbnormalShown
    /\ Len(recentFeatures) = 7
    /\ HighAmongLast(7) < 6
    /\ ret = [type |-> "abnormal_motion", confidence |-> 5500]

----------------------------------------------------------------------------
(* What the last AlertManager call saw *)

IsShouldAlert == acall.op = "shouldAlert"

(* the last call reached triggerAlert *)
TriggerCalled == acall.op = "testAlert" \/ (IsShouldAlert /\ acall.result)

(* one of the four refusals applies to detection d at time t *)
Refused(c, d, last, t) ==
    \/ ~c.enabled
    \/ d.type = "null"
    \/ d.confidence < c.confidenceThreshold
    \/ t - last < c.cooldownPeriod

(* C13: shouldAlert returns false if the config is disabled, the kind is   *)
(* None, the confidence is below the threshold or less than cooldownPeriod *)
(* has elapsed since lastAlertTime, and true in every other case.          *)
C13_ShouldAlertDecision ==
    IsShouldAlert
        => (acall.result <=> ~Refused(acall.before.config, acall.d,
                                      acall.before.lastAlertTime, acall.at))

(* accepted with the confidence equal to the threshold and the elapsed     *)
(* time equal to the cooldown                                              *)
C13_Witness ==
    /\ IsShouldAlert
    /\ acall.result
    /\ acall.d.confidence = acall.before.config.confidenceThreshold
    /\ acall.at - acall.before.lastAlertTime = acall.before.config.cooldownPeriod

----------------------------------------------------------------------------
----------------------------------------------------------------------------
(* C15: a triggerAlert call that finds isAlerting true changes nothing: no *)
(* tone, no log, isAlerting and lastAlertTime as before.  One that finds   *)
(* it false records the time and raises one alert, which is logged once:   *)
(* at once, or when the resume it awaits has settled.  isAlerting is then  *)
(* true, unless the tone failed and cleanup has run.                       *)
C15_TriggerWhileAlerting ==
    /\ TriggerCalled
          => LET b == acall.before
             IN  IF b.isAlerting THEN Manager = b
                 ELSE /\ lastAlertTime = acall.at
                      /\ Len(alerts) = Len(b.alerts) + 1
                      /\ SubSeq(alerts, 1, Len(b.alerts)) = b.alerts
                      /\ created <= b.created + 1
                      /\ \/ isAlerting
                         \/ /\ config.soundEnabled
                            /\ audioContext = "running"
                            /\ oscillator = 0
    /\ \A k \in 1..Len(alerts) :
          alerts[k].logs =
              IF \E i \in 1..Len(waiting) : waiting[i].alert = k THEN 0 ELSE 1

(* triggerAlert was called while a tone was playing *)
C15_Witness ==
    /\ TriggerCalled
    /\ acall.before.isAlerting
    /\ acall.before.oscillator # 0
    /\ acall.before.tones # {}

----------------------------------------------------------------------------
(* C16: cleanup runs on every exit path of an alert, so isAlerting returns *)
(* to false without stopAlert.  Only the onended of a tone, the failure of *)
(* the tone and stopAlert run cleanup: while isAlerting is true, a tone or *)
(* a suspended call must be outstanding.                                   *)
C16_CleanupOnEveryExit ==
    isAlerting => (tones # {} \/ waiting # <<>>)

----------------------------------------------------------------------------
(* C17: stopAlert, in whatever state it is called, ends without an error,  *)
(* with isAlerting false and no oscillator or gain node held.              *)
C17_StopAlertLeavesNothing ==
    acall.op = "stopAlert"
        => /\ acall.error = "none"
           /\ ~isAlerting
           /\ oscillator = 0
           /\ gainNode = 0

(* stopAlert was called during a tone *)
C17_Witness ==
    /\ acall.op = "stopAlert"
    /\ acall.before.isAlerting
    /\ acall.before.oscillator # 0

----------------------------------------------------------------------------
(* C18: updateConfig(partial) gives the fields named in partial the values *)
(* of partial and leaves the other fields and the rest of the manager as   *)
(* they were; shouldAlert decides on the config as it then is.             *)
C18_UpdateConfigFrame ==
    /\ acall.op = "updateConfig"
          => /\ \A x \in DOMAIN config :
                   config[x] = IF x \in DOMAIN acall.partial
                               THEN acall.partial[x]
                               ELSE acall.before.config[x]
             /\ [Manager EXCEPT !.config = acall.before.config] = acall.before
    /\ IsShouldAlert
          => (acall.result <=> ~Refused(config, acall.d,
                                        acall.before.lastAlertTime, acall.at))

(* some fields were updated, others kept, during a tone *)
C18_Witness ==
    /\ acall.op = "updateConfig"
    /\ config # acall.before.config
    /\ config # DefaultConfig
    /\ DOMAIN acall.partial # DOMAIN config
    /\ isAlerting
    /\ tones # {}

----------------------------------------------------------------------------
(* C19: when testAlert has completed, at once or when the resume it awaits *)
(* has settled, config.enabled has the value it had before the call and no *)
(* other field has changed; the alert it raises is a fall of confidence 1. *)
C19_TestAlertRestoresEnabled ==
    /\ (acall.op = "testAlert" /\ Len(waiting) = Len(acall.before.waiting))
          => config = acall.before.config
    /\ (acall.op = "testAlert" /\ Len(waiting) > Len(acall.before.waiting))
          => /\ waiting[Len(waiting)].then =
                   IF acall.before.config.enabled THEN "enable" ELSE "disable"
             /\ config = [acall.before.config EXCEPT !.enabled = TRUE]
    /\ acall.op = "resumed"
          => LET w == acall.before.waiting
                 tests == {i \in 1..Len(w) : w[i].then # "return"}
             IN  /\ \A i \in tests :
                       (\A j \in tests : j <= i)
                           => config.enabled = (w[i].then = "enable")
                 /\ tests = {} => config.enabled = acall.before.config.enabled
                 /\ [config EXCEPT !.enabled = TRUE]
                        = [acall.before.config EXCEPT !.enabled = TRUE]
    /\ \A k \in 1..Len(alerts) :
          alerts[k].via = "test"
              => alerts[k].type = "fall" /\ alerts[k].confidence = 10000

(* a testAlert on a disabled config raised its alert and left it disabled  *)
C19_Witness ==
    /\ acall.op = "testAlert"
    /\ ~acall.before.config.enabled
    /\ ~config.enabled
    /\ alerts # <<>>
    /\ alerts[Len(alerts)].via = "test"
    /\ alerts[Len(alerts)].at = acall.at
    /\ alerts[Len(alerts)].logs = 1

----------------------------------------------------------------------------
(* C20: extractFeatures returns null while the buffer holds fewer than 10  *)
(* samples and a feature vector from 10 samples on; the motion effect      *)
(* calls detect exactly on the runs where a vector was returned, with it.  *)
C20_NullBelowTenSamples ==
    tick.op = "effect"
        => /\ tick.length = Len(dataBuffer)
           /\ tick.length < 10 => tick.features = Null
           /\ tick.length >= 10
                 => /\ tick.features # Null
                    /\ DOMAIN tick.features = DOMAIN Still
           /\ tick.features = Null
                 => /\ ndetect = tick.ndetect
                    /\ call = tick.call
           /\ tick.features # Null
                 => /\ ndetect = tick.ndetect + 1
                    /\ call.op = "detect"
                    /\ call.f = tick.features

(* the run on the tenth sample passed a vector to detect, the nine before  *)
(* had passed none                                                         *)
C20_Witness ==
    /\ tick.op = "effect"
    /\ tick.length = 10
    /\ tick.features # Null
    /\ tick.ndetect = 0
    /\ ndetect = 1

----------------------------------------------------------------------------
(* C21: after any sequence of addData and clear calls getBufferLength() is  *)
(* the smaller of the number of samples added since the last clear and the  *)
(* capacity, and the buffer holds the most recent of these samples in the   *)
(* order they arrived.                                                      *)
C21_WindowHoldsMostRecent ==
    /\ getBufferLength(dataBuffer) = Min(Len(added), bufferSize)
    /\ getBufferLength(dataBuffer) <= bufferSize
    /\ dataBuffer = Last(bufferSize, added)

(* 60 samples were added to the buffer of 50: the oldest 10 are gone *)
C21_Witness ==
    /\ Len(added) = 60
    /\ getBufferLength(dataBuffer) = 50
    /\ dataBuffer[1] = added[11]
    /\ dataBuffer[50] = added[60]
    /\ \A i \in 1..10 : \A j \in 1..50 : dataBuffer[j] # added[i]

----------------------------------------------------------------------------
(* C22: reset() leaves the detector as a newly constructed one: Idle, the   *)
(* state timestamp and the feature history cleared; fed the same vectors at *)
(* the same moments as a detector constructed at the reset, it is in the    *)
(* same state after every detect call and has returned the same             *)
(* classification.                                                          *)
C22_ResetAsConstructed ==
    /\ call.op = "reset"
          => /\ fallDetectionState = "idle"
             /\ fallStateTimestamp = 0
             /\ recentFeatures = <<>>
    /\ fallDetectionState = replica.state
    /\ fallStateTimestamp = replica.stamp
    /\ recentFeatures = replica.history
    /\ IsDetect => ret = replica.ret

(* a fall had been reported when reset() was called, and the same three     *)
(* vectors have been classified as a fall again                             *)
C22_Witness ==
    /\ replica.fell
    /\ IsDetect
    /\ passed = <<Still, Hit, Still>>
    /\ fallDetectionState = "post_impact"
    /\ ret.type = "fall"
    /\ replica.ret.type = "fall"

----------------------------------------------------------------------------
(* the time by which the detect call of a second detector, given the same   *)
(* sample, may come after that of the first                                 *)
Lags == {0, 200}

(* C23 (as stated): two detectors in the same internal state that are given *)
(* the same feature vector of the same sample return the same               *)
(* classification and reach the same fall state, whenever each of them      *)
(* happens to be called.                                                    *)
C23_SameWheneverCalled ==
    IsDetect
        => \A lag \in Lags :
              LET late == detectFall(call.state, call.stamp, call.f,
                                     call.at + lag)
              IN  /\ late.state = fallDetectionState
                  /\ Select(late.confidence, violentConfidence(call.f),
                            abnormalConfidence(call.f, recentFeatures)) = ret

----------------------------------------------------------------------------
(* C24: after any sequence of detect and reset calls the feature history    *)
(* holds at most 10 vectors: the most recent ones passed to detect since    *)
(* the last reset, in the order of the calls.                               *)
C24_HistoryHoldsMostRecent ==
    /\ Len(recentFeatures) <= HISTORY_SIZE
    /\ recentFeatures = Last(HISTORY_SIZE, passed)

(* twelve vectors were passed since a reset: the first two, unlike the      *)
(* third, are gone                                                          *)
C24_Witness ==
    /\ call.op = "detect"
    /\ now > Epoch + 200 * 12
    /\ Len(passed) = 12
    /\ passed[1] = Still
    /\ passed[2] = Still
    /\ passed[3] = Surge
    /\ Len(recentFeatures) = 10
    /\ recentFeatures[1] = Surge
    /\ recentFeatures[10] = passed[12]

----------------------------------------------------------------------------
(* C25: clear() leaves the analyzer as a newly constructed one: the buffer  *)
(* empty and the gravity filter at zero; called as an analyzer constructed  *)
(* at the clear is, it holds the same buffer and filter after every call    *)
(* and extractFeatures has returned the same, which is null until 10        *)
(* samples have been added since the clear.                                 *)
C25_ClearAsConstructed ==
    /\ tick.op = "clear"
          => /\ getBufferLength(dataBuffer) = 0
             /\ gravityFilter = Zero
    /\ dataBuffer = twin.dataBuffer
    /\ gravityFilter = twin.gravityFilter
    /\ tick.op = "extractFeatures"
          => /\ tick.features = twin.features
             /\ Len(added) < MIN_SAMPLES => tick.features = Null

(* the analyzer was cleared with its gravity filter away from zero, ten     *)
(* samples were added and extractFeatures, finding the filter at zero, has  *)
(* returned a vector and moved the filter                                   *)
C25_Witness ==
    /\ twin.filtered
    /\ tick.op = "extractFeatures"
    /\ Len(added) = 10
    /\ tick.features # Null
    /\ tick.gravity = Zero
    /\ gravityFilter # Zero

----------------------------------------------------------------------------
(* C26 (as stated): once monitoring has been stopped no alert is in         *)
(* progress and the sample buffer, the fall state and the feature history   *)
(* are empty.                                                               *)
C26_StopDropsState ==
    ~isMonitoring
        => /\ ~isAlerting
           /\ tones = {}
           /\ dataBuffer = <<>>
           /\ fallDetectionState = "idle"
           /\ recentFeatures = <<>>

----------------------------------------------------------------------------
(* What the last extractFeatures call returned, and the samples it took the *)
(* jerk from                                                                *)

Extracted == tick.op = "extractFeatures" /\ tick.features # Null

Recent == Last(10, dataBuffer)

(* the pairs of consecutive samples by the sign of their time difference *)
PositivePairs ==
    {i \in 2..Len(Recent) : Recent[i].timestamp > Recent[i - 1].timestamp}

NonZeroPairs ==
    {i \in 2..Len(Recent) : Recent[i].timestamp # Recent[i - 1].timestamp}

(* the norm of the change of acceleration over the time difference *)
Term(i) ==
    (computeMagnitude([k \in 1..3 |-> Recent[i].acceleration[k]
                                      - Recent[i - 1].acceleration[k]]) * 1000)
        \div Abs(Recent[i].timestamp - Recent[i - 1].timestamp)

MaxTerm(pairs) == IF pairs = {} THEN 0 ELSE MaxOf({Term(i) : i \in pairs})

(* C27 (as stated): a pair of consecutive samples among the last 10 with a  *)
(* zero or negative time difference contributes no term: the jerk           *)
(* extractFeatures returns is the maximum over the pairs with a positive    *)
(* time difference.                                                         *)
C27_JerkOverPositivePairs ==
    Extracted => tick.features.jerk = MaxTerm(PositivePairs)

----------------------------------------------------------------------------
(* C28 (as stated): the jerk is the maximum over the pairs of consecutive   *)
(* samples among the last 10 of the norm of the change of acceleration over *)
(* the time difference, and 0 whenever fewer than 2 pairs have a time       *)
(* difference, exactly one included.                                        *)
C28_ZeroBelowTwoPairs ==
    Extracted
        => /\ Cardinality(NonZeroPairs) < 2 => tick.features.jerk = 0
           /\ Cardinality(NonZeroPairs) >= 2
                 => tick.features.jerk = MaxTerm(NonZeroPairs)

(* C28 (amended): the jerk is the maximum, over the pairs of consecutive    *)
(* samples among the last 10 whose time difference is not zero, of the norm *)
(* of the change of acceleration over the size of the time difference; it   *)
(* is 0 when there is no such pair, and the term of the pair when there is  *)
(* exactly one.                                                             *)
C28_JerkOverValidPairs ==
    Extracted
        => /\ tick.features.jerk = MaxTerm(NonZeroPairs)
           /\ NonZeroPairs = {} => tick.features.jerk = 0
           /\ \A i \in NonZeroPairs :
                 NonZeroPairs = {i} => tick.features.jerk = Term(i)

(* of the 11 samples of the buffer only the last two differ in time, and    *)
(* the jerk between them was returned                                       *)
C28_Witness ==
    /\ Extracted
    /\ Len(dataBuffer) = 11
    /\ NonZeroPairs = {10}
    /\ tick.features.jerk = Term(10)
    /\ tick.features.jerk > 0

----------------------------------------------------------------------------
(* C29 (as stated): two extractFeatures calls with no addData or clear      *)
(* between them return the same vector, also when samples of the buffer     *)
(* have no linear acceleration and go through the gravity filter.           *)
C29_SameVectorTwice ==
    (Extracted /\ tick.after = "extractFeatures")
        => tick.features = tick.last

----------------------------------------------------------------------------
(* the magnitudes the last extractFeatures call took the peak and the       *)
(* average from, and their population variance in tenths                    *)
Magnitudes == magnitudesOf(dataBuffer, tick.gravity).magnitudes

VarianceOf(m) ==
    LET n == Len(m)
        squares == [i \in 1..n |-> m[i] * m[i]]
    IN  (n * Sum(squares) - Sum(m) * Sum(m)) \div (10 * n * n)

(* C30 (as stated): the variance extractFeatures returns is the population  *)
(* variance of the per-sample magnitudes whose maximum is peakAcceleration  *)
(* and whose mean is averageAcceleration, also when the samples have no     *)
(* linear acceleration and are gravity-filtered.                            *)
C30_VarianceOfSameMagnitudes ==
    Extracted
        => /\ tick.features.peakAcceleration
                 = MaxOf({Magnitudes[i] : i \in 1..Len(Magnitudes)})
           /\ tick.features.averageAcceleration
                 = Sum(Magnitudes) \div Len(Magnitudes)
           /\ tick.features.variance = VarianceOf(Magnitudes)

----------------------------------------------------------------------------
(* C39: stopAlert leaves lastAlertTime and the config as they were, so the  *)
(* cooldown of the stopped alert keeps running: until cooldownPeriod has    *)
(* elapsed since that alert was triggered shouldAlert returns false for     *)
(* every detection; and a shouldAlert call changes neither lastAlertTime    *)
(* nor isAlerting.                                                          *)
StillCooling(timestamp) ==
    timestamp - lastAlertTime < config.cooldownPeriod
        => \A d \in Detections : ~shouldAlert(Manager, d, timestamp)

C39_StopAlertKeepsCooldown ==
    /\ acall.op = "stopAlert"
          => /\ lastAlertTime = acall.before.lastAlertTime
             /\ config = acall.before.config
             /\ acall.before.isAlerting
                   => lastAlertTime = alerts[Len(alerts)].at
             /\ StillCooling(now)
             /\ \A dt \in AlertGaps : StillCooling(now + dt)
    /\ (acall.op = "shouldAlert" /\ ~acall.result)
          => /\ lastAlertTime = acall.before.lastAlertTime
             /\ isAlerting = acall.before.isAlerting

(* an alert in progress was stopped before its cooldown had elapsed *)
C39_Witness ==
    /\ acall.op = "stopAlert"
    /\ acall.before.isAlerting
    /\ ~isAlerting
    /\ lastAlertTime > 0
    /\ now - lastAlertTime < config.cooldownPeriod
    /\ config.enabled

----------------------------------------------------------------------------
(* the nodes whose onended callback the last step ran *)
Ended == acall.before.tones \ tones

(* C34 (as stated): the onended callback of the tone of one alert never     *)
(* affects a later alert: when it runs after the alert was stopped and a    *)
(* new one started, it neither drops the oscillator of the new alert nor    *)
(* resets isAlerting.                                                       *)
C34_StaleEndLeavesNewAlert ==
    acall.op = "onended"
        => \A n \in Ended :
              n.id # acall.before.oscillator
                 => /\ oscillator = acall.before.oscillator
                    /\ gainNode = acall.before.gainNode
                    /\ isAlerting = acall.before.isAlerting

----------------------------------------------------------------------------
(* the tones that sound at the time of the state *)
Playing == {n \in tones : n.due > now}

(* C35 (as stated): at every moment at most one tone exists, and isAlerting *)
(* is true whenever one does, under every interleaving of the calls with    *)
(* the resume of the audio context.                                         *)
C35_OneToneOnlyWhileAlerting ==
    /\ Cardinality(Playing) <= 1
    /\ Playing # {} => isAlerting

----------------------------------------------------------------------------
(* C36 (as stated): while the config supplied to the manager has enabled    *)
(* false, no shouldAlert call returns true, also while a testAlert is in    *)
(* progress; and once the testAlert calls in progress have ended,           *)
(* config.enabled is the value supplied, also when it was supplied during   *)
(* the testAlert.                                                           *)
C36_SuppliedEnabledRules ==
    /\ (acall.op = "shouldAlert" /\ ~alertConfig.enabled) => ~acall.result
    /\ acall.op = "resumed" => config.enabled = alertConfig.enabled

----------------------------------------------------------------------------
(* the alert the manager raised for entry e of the recent-alerts list *)
RaisedFor(e) ==
    {k \in DOMAIN alerts : /\ alerts[k].via = "pipeline"
                           /\ alerts[k].at = e.at
                           /\ alerts[k].type = e.type
                           /\ alerts[k].confidence = e.confidence
                           /\ alerts[k].logs > 0}

(* C37 (as stated): every entry of the recent-alerts list is an alert that  *)
(* triggerAlert raised (isAlerting set, lastAlertTime updated, log          *)
(* emitted), never a call that did nothing because an alert was in          *)
(* progress; and the list holds at most 10 entries.                         *)
C37_EntriesAreRaisedAlerts ==
    /\ Len(recentAlerts) <= RECENT_ALERTS
    /\ \A i \in DOMAIN recentAlerts :
          \/ RaisedFor(recentAlerts[i]) # {}
          \/ \E j \in 1..Len(waiting) :
                /\ alerts[waiting[j].alert].at = recentAlerts[i].at
                /\ alerts[waiting[j].alert].via = "pipeline"

----------------------------------------------------------------------------
(* C38 (as stated): in every sequence of permission requests, starts and    *)
(* stops, the sensor status never has active = true together with           *)
(* permission = denied, and no sample is processed in that situation.       *)
C38_NeverActiveWhileDenied ==
    /\ ~(status.active /\ status.permission = "denied")
    /\ status.permission = "denied" => added = <<>>

----------------------------------------------------------------------------
(* C33 (as stated): after monitoring is started again the window holds only *)
(* samples delivered after the restart: when the monitoring flag has turned *)
(* on the freshly cleared window is empty, and the sample the previous      *)
(* session ended with is not in it.                                         *)
C33_RestartStartsEmpty ==
    tick.op = "start"
        => /\ dataBuffer = <<>>
           /\ \A i \in 1..Len(dataBuffer) : <<dataBuffer[i]>> # sensorData

----------------------------------------------------------------------------
(* the samples in the window since the last clear, without repetition *)
Delivered == {added[i] : i \in 1..Len(added)}

(* C32 (as stated): each sample delivered while monitoring is added to the  *)
(* window once and passed to detect once; no user action, such as changing  *)
(* the save option, makes the effect add or classify the current sample     *)
(* again.                                                                   *)
C32_EachSampleOnce ==
    /\ Cardinality(Delivered) = Len(added)
    /\ ndetect <= Cardinality(Delivered)

----------------------------------------------------------------------------
(* the rows of a table, and the chains of the detections saved *)
Rows(table) == {table[i] : i \in 1..Len(table)}

Chains == {saves[i] : i \in 1..Len(saves)}

SameDetection(a, b) ==
    a.type = b.type /\ a.confidence = b.confidence /\ a.at = b.at

(* the last run of the motion effect passed a vector to detect *)
Classified == tick.op = "effect" /\ tick.features # Null

====
